---- MODULE Spec2Model ----
(***************************************************************************)
(* Model of the Aadhar OTP authentication core of gold-tracker:            *)
(*   src/src/services/authService.js  requestOTP, verifyOTP,               *)
(*                                    restoreSession, logout               *)
(*   src/unnamed/part_002             RateLimiter, AuditLogger,            *)
(*                                    SessionManager, sha256, generators   *)
(*   src/src/utils/validators.js      validateAadhar, validateOTP          *)
(*                                                                         *)
(* Strings are sequences of one-character strings.  Date.now() is the      *)
(* variable now, in milliseconds.  requestOTP, verifyOTP, restoreSession   *)
(* and logout are the calls run to completion in one step (the caller      *)
(* awaits them, nothing else runs meanwhile); the operators named _begin,  *)
(* _lookup, _store and _resume are the synchronous stretches of the two    *)
(* async functions between their awaits, for the calls that overlap.       *)
(***************************************************************************)
EXTENDS Integers, Sequences, FiniteSets, TLC

VARIABLES
    now,                \* Date.now(), milliseconds
    otpRequestLimiter,  \* authService.js:33
    otpVerifyLimiter,   \* authService.js:34
    pendingChallenge,   \* authService.js:30  _pendingChallenge
    session,            \* sessionStorage['ims_session'], parsed
    auditLog,           \* sessionStorage['ims_audit_log'], parsed
    result,             \* what the last API call returned or threw
    limiter,            \* a RateLimiter instance exercised on its own
    consumed,           \* what the last method call on limiter returned
    auditStorage,       \* how sessionStorage answers for 'ims_audit_log':
                        \* "ok", "writeFails" (setItem raises) or
                        \* "readFails" (getItem or JSON.parse raises)
    calls,              \* the calls of requestOTP / verifyOTP suspended at
                        \* an await, by caller
    hashChecks,         \* history: comparisons made with the otpHash of the
                        \* challenge now pending
    allowedAt,          \* history: the times at which limiter.consume()
                        \* returned allowed since its construction or reset
    validated,          \* a validator's input and what it returned for it
    compared,           \* the last expectedHash !== otpHash evaluated on its
                        \* own: the operands and the code units examined
    unknownTxns,        \* history: the transaction ids returned for ids
                        \* the registry does not hold
    state,              \* part_001:29  the state of AuthProvider's reducer
    generated           \* the last generateOTP(len) evaluated on its own: the
                        \* random word, len and what the call returned

vars == <<now, otpRequestLimiter, otpVerifyLimiter, pendingChallenge,
          session, auditLog, result, limiter, consumed, auditStorage,
          calls, hashChecks, allowedAt, validated, compared,
          unknownTxns, state, generated>>

\* the variables the calls run to completion do not use
sideVars == <<calls, hashChecks, allowedAt, validated, compared, unknownTxns,
              state, generated>>

authVars == <<otpRequestLimiter, otpVerifyLimiter, pendingChallenge,
              session, auditLog, result>>

\* null for the object-valued variables
Null == [null |-> TRUE]
\* null for lockUntil: the code only tests its truthiness, and a set lockUntil
\* is now + window > 0
NO_LOCK == 0

\* the callers of the two async functions: sendOTP calls requestOTP
\* (part_001:37-52); the form's handleSubmit and the auto-submit effect
\* both call confirmOTP, which calls verifyOTP (OTPVerification.jsx:43-65,
\* part_001:54-62)
Callers == {"sendOTP", "handleSubmit", "autoSubmit"}

\* a caller with no call in flight
Idle == [pc |-> "idle"]
NoCalls == [c \in Callers |-> Idle]

-----------------------------------------------------------------------------
(* part_001: the state AuthProvider keeps with useReducer.  null is Null for  *)
(* user, "" for error and <<>> for the three fields a request fills in        *)

\* initialState, part_001:6-13
initialState ==
    [user |-> Null, phase |-> "idle", error |-> "", transactionId |-> <<>>,
     maskedMobile |-> <<>>, demoOTP |-> <<>>]

\* reducer(state, action), part_001:15-26
reducer(st, action) ==
    CASE action.type = "REQUEST_START" ->
            [st EXCEPT !.phase = "requesting", !.error = ""]
      [] action.type = "OTP_SENT" ->
            [st EXCEPT !.phase = "otp_sent",
                       !.transactionId = action.payload.transactionId,
                       !.maskedMobile = action.payload.maskedMobile,
                       !.demoOTP = action.payload.demoOTP]
      [] action.type = "VERIFY_START" ->
            [st EXCEPT !.phase = "verifying", !.error = ""]
      [] action.type = "AUTH_SUCCESS" ->
            [st EXCEPT !.phase = "authenticated", !.user = action.user,
                       !.error = "", !.demoOTP = <<>>]
      [] action.type = "AUTH_ERROR" ->
            [st EXCEPT !.phase = IF st.phase = "verifying" THEN "otp_sent" ELSE "idle",
                       !.error = action.error]
      [] action.type = "LOGOUT" -> initialState
      [] action.type = "BACK_TO_AADHAR" ->
            [st EXCEPT !.phase = "idle", !.error = "", !.transactionId = <<>>,
                       !.maskedMobile = <<>>, !.demoOTP = <<>>]
      [] OTHER -> st

\* the action a call of the service ends in, dispatched by sendOTP
\* (part_001:41-50) when r is what requestOTP returned or threw
sendOTP_dispatch(r) ==
    IF r.ok THEN [type |-> "OTP_SENT",
                  payload |-> [transactionId |-> r.transactionId,
                               maskedMobile |-> r.maskedMobile,
                               demoOTP |-> r.demoOTP]]
    ELSE [type |-> "AUTH_ERROR", error |-> r.error]

\* the action confirmOTP dispatches (part_001:58-60) when r is what verifyOTP
\* returned or threw
confirmOTP_dispatch(r) ==
    IF r.ok THEN [type |-> "AUTH_SUCCESS", user |-> r.user]
    ELSE [type |-> "AUTH_ERROR", error |-> r.error]

\* no validator has been applied
NoValidation == [input |-> <<>>, valid |-> FALSE, error |-> "", edit |-> "none"]

\* no comparison has been evaluated
NoComparison == [engine |-> "none", expected |-> <<>>, stored |-> <<>>,
                 differ |-> FALSE, examined |-> 0]

-----------------------------------------------------------------------------
(* Bounds of the model *)

\* entries the audit log may hold in the specification of overlapping calls
OverlapAudit == 2

\* entries the audit log may hold in the specification of repeated verify calls
BruteAudit == 4

\* entries the audit log may hold in the specification of unknown ids
UnknownAudit == 3

\* entries the audit log may hold in the specification of the AuthProvider
AuthAudit == 3

\* the longest code asked of generateOTP on its own
MaxOtpLen == 10

\* the characters of a digest in the comparison specification (64 in the
\* program)
DigestLen == 3

\* the clock advances MaxTicks times at most
MaxTicks == 2
\* entries the audit log may hold: a call that would log beyond it is not made
MaxAudit == 4
\* the same two bounds of the request-phase specification
RequestTicks == 2
RequestAudit == 2
\* the clock of the session specification advances SessionTicks times at most
SessionTicks == 4
\* entries the audit log may hold in the session specification
SessionAudit == 3

\* the digits before the check digit that take every value in the ids the
\* validator specification starts from
FreeDigits == 1

\* calls of AuditLogger.log() the audit specification makes at most
AuditCalls == 203

\* entries the audit log may hold in the storage-fault specification
FaultAudit == 2

\* entries the audit log may hold in the failure specification
FailAudit == 4

\* the clock of the stand-alone limiter advances MaxLimiterTicks times at most
MaxLimiterTicks == 8

-----------------------------------------------------------------------------
(* Program constants *)

REQUEST_MAX == 3
REQUEST_WINDOW == 10 * 60 * 1000
VERIFY_MAX == 5
VERIFY_WINDOW == 30 * 60 * 1000
OTP_VALIDITY == 10 * 60 * 1000
OTP_LEN == 6
MAX_OTP_ATTEMPTS == 3
TXN_ID_LEN == 16
TOKEN_BYTES == 32
SESSION_TTL == 30 * 60 * 1000
AUDIT_KEEP == 200
AADHAR_LEN == 12

\* granularity of the clock: the shortest period of the program, and half of
\* it for the stand-alone limiter
TickMs == OTP_VALIDITY
LimiterTickMs == REQUEST_WINDOW \div 2

\* granularity of the clock of the session specification: half the session TTL
SessionTickMs == SESSION_TTL \div 2

\* the clock step of the failure specification: past the validity of a code
FailTickMs == 2 * OTP_VALIDITY

\* the time between two calls of AuditLogger.log() in the audit specification
AuditTickMs == 1000

-----------------------------------------------------------------------------
(* Strings *)

DigitChars == <<"0", "1", "2", "3", "4", "5", "6", "7", "8", "9">>

IsDigit(c) == \E i \in 1..10 : DigitChars[i] = c

\* Number(c) for a digit character
DigitValue(c) == (CHOOSE i \in 1..10 : DigitChars[i] = c) - 1

\* s.replace(/\s/g, '')
StripWhitespace(s) == SelectSeq(s, LAMBDA c : c # " ")

\* /^\d{n}$/.test(s)
IsDigits(s, n) == Len(s) = n /\ \A i \in 1..Len(s) : IsDigit(s[i])

\* s.slice(0, n)
SliceTo(s, n) == IF Len(s) <= n THEN s ELSE SubSeq(s, 1, n)

\* s.slice(n)
SliceFrom(s, n) == IF Len(s) <= n THEN <<>> ELSE SubSeq(s, n + 1, Len(s))

\* s.slice(-n)
SliceLast(s, n) == IF Len(s) <= n THEN s ELSE SubSeq(s, Len(s) - n + 1, Len(s))

\* Math.ceil(a / b) for a >= 0, b > 0
CeilDiv(a, b) == (a + b - 1) \div b

-----------------------------------------------------------------------------
(* validators.js *)

V_D == <<
    <<0, 1, 2, 3, 4, 5, 6, 7, 8, 9>>,
    <<1, 2, 3, 4, 0, 6, 7, 8, 9, 5>>,
    <<2, 3, 4, 0, 1, 7, 8, 9, 5, 6>>,
    <<3, 4, 0, 1, 2, 8, 9, 5, 6, 7>>,
    <<4, 0, 1, 2, 3, 9, 5, 6, 7, 8>>,
    <<5, 9, 8, 7, 6, 0, 4, 3, 2, 1>>,
    <<6, 5, 9, 8, 7, 1, 0, 4, 3, 2>>,
    <<7, 6, 5, 9, 8, 2, 1, 0, 4, 3>>,
    <<8, 7, 6, 5, 9, 3, 2, 1, 0, 4>>,
    <<9, 8, 7, 6, 5, 4, 3, 2, 1, 0>> >>

V_P == <<
    <<0, 1, 2, 3, 4, 5, 6, 7, 8, 9>>,
    <<1, 5, 7, 6, 2, 8, 3, 0, 9, 4>>,
    <<5, 8, 0, 3, 7, 9, 6, 1, 4, 2>>,
    <<8, 9, 1, 6, 0, 4, 3, 5, 2, 7>>,
    <<9, 4, 5, 3, 1, 2, 6, 8, 7, 0>>,
    <<4, 2, 8, 6, 5, 7, 3, 9, 0, 1>>,
    <<2, 7, 9, 3, 8, 0, 6, 4, 1, 5>>,
    <<7, 0, 4, 6, 9, 1, 3, 2, 5, 8>> >>

\* the accumulator c after the first k digits from the right (validators.js:35-38)
RECURSIVE VerhoeffAcc(_, _)
VerhoeffAcc(num, k) ==
    IF k = 0 THEN 0
    ELSE LET c == VerhoeffAcc(num, k - 1)
             i == k - 1
             d == DigitValue(num[Len(num) - i])
         IN  V_D[c + 1][V_P[(i % 8) + 1][d + 1] + 1]

\* the checksum without the position-dependent permutation V_P
RECURSIVE VerhoeffAcc_noPermutation(_, _)
VerhoeffAcc_noPermutation(num, k) ==
    IF k = 0 THEN 0
    ELSE LET c == VerhoeffAcc_noPermutation(num, k - 1)
             d == DigitValue(num[Len(num) - (k - 1)])
         IN  V_D[c + 1][d + 1]

validateVerhoeff_noPermutation(num) == VerhoeffAcc_noPermutation(num, Len(num)) = 0

validateVerhoeff(num) == VerhoeffAcc(num, Len(num)) = 0

\* validateAadhar without the checksum
validateAadhar_noChecksum(raw) ==
    LET num == StripWhitespace(raw)
    IN  IF ~IsDigits(num, AADHAR_LEN)
          THEN [valid |-> FALSE, error |-> "Aadhar must be exactly 12 digits"]
        ELSE IF num[1] \in {"0", "1"}
          THEN [valid |-> FALSE, error |-> "Invalid Aadhar number"]
        ELSE [valid |-> TRUE, error |-> ""]

validateAadhar(raw) ==
    LET num == StripWhitespace(raw)
    IN  IF ~IsDigits(num, AADHAR_LEN)
          THEN [valid |-> FALSE, error |-> "Aadhar must be exactly 12 digits"]
        ELSE IF num[1] \in {"0", "1"}
          THEN [valid |-> FALSE, error |-> "Invalid Aadhar number"]
        ELSE IF ~validateVerhoeff(num)
          THEN [valid |-> FALSE, error |-> "Invalid Aadhar checksum"]
        ELSE [valid |-> TRUE, error |-> ""]

\* validateOTP accepting any text
validateOTP_any(otp) == [valid |-> TRUE, error |-> ""]

validateOTP(otp) ==
    IF ~IsDigits(otp, OTP_LEN)
      THEN [valid |-> FALSE, error |-> "OTP must be 6 digits"]
      ELSE [valid |-> TRUE, error |-> ""]

-----------------------------------------------------------------------------
(* security utilities: hashing, masking *)

\* SHA-256 as a collision-free one-way function of its text
sha256(text) == <<"sha256", text>>

\* A mask that keeps every digit
maskAadhar_full(num) == num

maskAadhar(num) ==
    IF Len(num) # AADHAR_LEN THEN <<"X", "X", "X", "X", " ", "X", "X", "X", "X", " ", "X", "X", "X", "X">>
    ELSE <<"X", "X", "X", "X", " ", "X", "X", "X", "X", " ">> \o SliceFrom(num, 8)

\* mob is a string of digits here, so replace(/\D/g, '') leaves it as it is
maskMobile(mob) ==
    SliceTo(mob, 2) \o <<"X", "X", "X", "X", "X", "X">> \o SliceLast(mob, 2)

-----------------------------------------------------------------------------
(* RateLimiter (part_002:93-131) *)

NewRateLimiter(maxAttempts, windowMs) ==
    [max |-> maxAttempts, window |-> windowMs, attempts |-> <<>>, lockUntil |-> NO_LOCK]

\* isLocked() with the comparison turned round
isLocked_inverted(l, t) ==
    IF l.lockUntil # NO_LOCK /\ t > l.lockUntil
      THEN [lim |-> l, locked |-> TRUE, seconds |-> CeilDiv(t - l.lockUntil, 1000)]
      ELSE [lim |-> [l EXCEPT !.lockUntil = NO_LOCK], locked |-> FALSE, seconds |-> 0]

\* isLocked(): seconds remaining if locked; otherwise clears lockUntil
isLocked(l, t) ==
    IF l.lockUntil # NO_LOCK /\ t < l.lockUntil
      THEN [lim |-> l, locked |-> TRUE, seconds |-> CeilDiv(l.lockUntil - t, 1000)]
      ELSE [lim |-> [l EXCEPT !.lockUntil = NO_LOCK], locked |-> FALSE, seconds |-> 0]

\* InWindow keeping an attempt that is exactly one window old
InWindow_inclusive(l, t) == SelectSeq(l.attempts, LAMBDA a : t - a <= l.window)

\* this.attempts.filter(t => now - t < this.window)
InWindow(l, t) == SelectSeq(l.attempts, LAMBDA a : t - a < l.window)

\* consume() locking one call late: length > max instead of >= max
consume_lockLate(l, t) ==
    LET chk == isLocked(l, t)
        kept == Append(SelectSeq(chk.lim.attempts, LAMBDA a : t - a < l.window), t)
    IN  IF chk.locked
          THEN [lim |-> chk.lim, allowed |-> FALSE, remaining |-> 0,
                lockSeconds |-> chk.seconds]
        ELSE IF Len(kept) > l.max
          THEN [lim |-> [chk.lim EXCEPT !.lockUntil = t + l.window, !.attempts = <<>>],
                allowed |-> FALSE, remaining |-> 0,
                lockSeconds |-> CeilDiv(l.window, 1000)]
        ELSE [lim |-> [chk.lim EXCEPT !.attempts = kept],
              allowed |-> TRUE, remaining |-> l.max - Len(kept), lockSeconds |-> 0]

\* consume() keeping the attempt history when it locks
consume_lockKeepsHistory(l, t) ==
    LET chk == isLocked(l, t)
        kept == Append(SelectSeq(chk.lim.attempts, LAMBDA a : t - a < l.window), t)
    IN  IF chk.locked
          THEN [lim |-> chk.lim, allowed |-> FALSE, remaining |-> 0,
                lockSeconds |-> chk.seconds]
        ELSE IF Len(kept) >= l.max
          THEN [lim |-> [chk.lim EXCEPT !.lockUntil = t + l.window, !.attempts = kept],
                allowed |-> FALSE, remaining |-> 0,
                lockSeconds |-> CeilDiv(l.window, 1000)]
        ELSE [lim |-> [chk.lim EXCEPT !.attempts = kept],
              allowed |-> TRUE, remaining |-> l.max - Len(kept), lockSeconds |-> 0]

\* consume(): the limiter afterwards and the object returned
consume(l, t) ==
    LET chk == isLocked(l, t)
        kept == Append(InWindow(chk.lim, t), t)
    IN  IF chk.locked
          THEN [lim |-> chk.lim, allowed |-> FALSE, remaining |-> 0,
                lockSeconds |-> chk.seconds]
        ELSE IF Len(kept) >= l.max
          THEN [lim |-> [chk.lim EXCEPT !.lockUntil = t + l.window, !.attempts = <<>>],
                allowed |-> FALSE, remaining |-> 0,
                lockSeconds |-> CeilDiv(l.window, 1000)]
        ELSE [lim |-> [chk.lim EXCEPT !.attempts = kept],
              allowed |-> TRUE, remaining |-> l.max - Len(kept), lockSeconds |-> 0]

\* reset() that leaves the limiter as it is
reset_nothing(l) == l

\* reset() forgetting the lock
reset_keepLock(l) == [l EXCEPT !.attempts = <<>>]

reset(l) == [l EXCEPT !.attempts = <<>>, !.lockUntil = NO_LOCK]

-----------------------------------------------------------------------------
(* security utilities: random token and OTP (part_002:60-71) *)

HexChars == <<"0", "1", "2", "3", "4", "5", "6", "7", "8", "9",
              "a", "b", "c", "d", "e", "f">>

\* b.toString(16).padStart(2, '0') for a byte b
HexByte(b) == <<HexChars[(b \div 16) + 1], HexChars[(b % 16) + 1]>>

RECURSIVE HexJoin(_)
HexJoin(bytes) ==
    IF bytes = <<>> THEN <<>> ELSE HexByte(Head(bytes)) \o HexJoin(Tail(bytes))

\* generateSessionToken() when crypto.getRandomValues fills arr with bytes
generateSessionToken(bytes) == HexJoin(bytes)

\* String(n) for n >= 0
RECURSIVE DecString(_)
DecString(n) ==
    IF n < 10 THEN <<DigitChars[n + 1]>>
    ELSE DecString(n \div 10) \o <<DigitChars[(n % 10) + 1]>>

\* s.padStart(len, '0')
RECURSIVE PadStart(_, _)
PadStart(s, len) == IF Len(s) >= len THEN s ELSE PadStart(<<"0">> \o s, len)

\* whether 10 ** len is above every value a Uint32 holds:
\* 10^9 < 2^32 < 10^10
AboveUint32(len) == len > 9

\* generateOTP(len) when crypto.getRandomValues yields the 32-bit word; where
\* 10 ** len is above every Uint32 the remainder is the word itself
generateOTP(word, len) ==
    PadStart(DecString(IF AboveUint32(len) THEN word ELSE word % (10 ^ len)), len)

\* no generateOTP has been evaluated on its own
NoOtp == [op |-> "none", word |-> 0, len |-> 0, otp |-> <<>>, threw |-> FALSE]

\* the values crypto.getRandomValues delivers in the model: one 32-bit word
\* (the OTP 123456) and two fillings of the 32 bytes (tokens 0a0a.., abab..)
RandomWord == 2147123456
FillA == [i \in 1..TOKEN_BYTES |-> 10]
FillB == [i \in 1..TOKEN_BYTES |-> 171]

-----------------------------------------------------------------------------
(* AuditLogger and SessionManager (part_002:137-180) *)

UserAgent == <<"u", "a">>

\* AuditLogger.getLogs(): the stored list, or [] when reading it raises
\* (part_002:150-152)
AuditLogger_getLogs(logs) == IF auditStorage = "readFails" THEN <<>> ELSE logs

\* AuditLogger.log() keeping the oldest entries: slice(0, 200) for slice(-200)
AuditLogger_log_keepOldest(logs, entry, t) ==
    LET pushed == Append(AuditLogger_getLogs(logs),
                         entry @@ [ts |-> t, ua |-> SliceTo(UserAgent, 80)])
    IN  IF auditStorage = "writeFails" THEN logs ELSE SliceTo(pushed, AUDIT_KEEP)

\* A logger that records nothing
AuditLogger_log_silent(logs, entry, t) == logs

\* the stored log after AuditLogger.log(event, meta); entry holds event and
\* meta. A setItem that raises is caught and leaves the store as it was
AuditLogger_log(logs, entry, t) ==
    LET pushed == Append(AuditLogger_getLogs(logs),
                         entry @@ [ts |-> t, ua |-> SliceTo(UserAgent, 80)])
    IN  IF auditStorage = "writeFails" THEN logs ELSE SliceLast(pushed, AUDIT_KEEP)

\* AuditLogger.log() letting the failure of setItem out: no try / catch
LogRaises_onWriteFailure == auditStorage = "writeFails"

\* whether AuditLogger.log() raises: never, the write is wrapped in
\* try { ... } catch {} (part_002:147) and the read in getLogs' own (151)
LogRaises == FALSE

\* SessionManager.clear() leaving the stored Session in place
SessionManager_clear_noop(stored) == stored

\* SessionManager.save() storing the time of the call as the expiry
SessionManager_save_noTtl(token, userMeta, t) ==
    [token |-> token, userMeta |-> userMeta, expiresAt |-> t]

\* SessionManager.clear(): the store after sessionStorage.removeItem(SESSION_KEY)
SessionManager_clear(stored) == Null

SessionManager_save(token, userMeta, t) ==
    [token |-> token, userMeta |-> userMeta, expiresAt |-> t + SESSION_TTL]

\* SessionManager.load() returning the payload without sliding its expiry
SessionManager_load_noSlide(stored, t) ==
    IF stored = Null THEN [store |-> Null, payload |-> Null]
    ELSE IF t > stored.expiresAt THEN [store |-> Null, payload |-> Null]
    ELSE [store |-> stored, payload |-> stored]

\* SessionManager.load() answering null for an expired Session without clearing it
SessionManager_load_keepExpired(stored, t) ==
    IF stored = Null THEN [store |-> Null, payload |-> Null]
    ELSE IF t > stored.expiresAt THEN [store |-> stored, payload |-> Null]
    ELSE LET slid == [stored EXCEPT !.expiresAt = t + SESSION_TTL]
         IN  [store |-> slid, payload |-> slid]

\* SessionManager.load(): the store afterwards and the payload returned
SessionManager_load(stored, t) ==
    IF stored = Null THEN [store |-> Null, payload |-> Null]
    ELSE IF t > stored.expiresAt
      THEN [store |-> SessionManager_clear(stored), payload |-> Null]
    ELSE LET slid == [stored EXCEPT !.expiresAt = t + SESSION_TTL]
         IN  [store |-> slid, payload |-> slid]

-----------------------------------------------------------------------------
(* authService.js *)

Str12(a, b, c) == a \o b \o c

DEMO_RESIDENTS ==
    Str12(<<"4", "9", "9", "1">>, <<"1", "8", "6", "6">>, <<"5", "2", "4", "6">>) :>
        [name |-> "Rajesh Kumar",
         mobile |-> <<"9", "8", "7", "6", "5", "4", "3", "2", "1", "0">>,
         pan |-> "ABCPK1234F", dob |-> "1985-06-15"]
    @@
    Str12(<<"2", "3", "4", "1">>, <<"2", "3", "4", "1">>, <<"2", "3", "4", "1">>) :>
        [name |-> "Priya Sharma",
         mobile |-> <<"8", "7", "6", "5", "4", "3", "2", "1", "0", "9">>,
         pan |-> "XYZPS5678G", dob |-> "1990-03-22"]
    @@
    Str12(<<"2", "3", "4", "1">>, <<"2", "3", "4", "1">>, <<"2", "3", "4", "8">>) :>
        [name |-> "Demo User",
         mobile |-> <<"9", "0", "0", "0", "0", "0", "0", "0", "0", "0">>,
         pan |-> "DEMOQ9999Z", dob |-> "1995-01-01"]

\* import.meta.env.VITE_AADHAR_PEPPER of the build
VITE_AADHAR_PEPPER == <<"p", "e", "p">>

\* the shape of result; the fields a call does not set keep these values.
\* fields holds the keys of the object requestOTP returned
NoResult ==
    [op |-> "none", ok |-> FALSE, error |-> "", minutes |-> 0, lockSeconds |-> 0,
     remaining |-> 0, transactionId |-> <<>>, maskedMobile |-> <<>>,
     demoOTP |-> <<>>, user |-> Null, fields |-> {}, demo |-> FALSE, hint |-> ""]

\* the result of a call that threw Error(message)
Thrown(op, message) == [NoResult EXCEPT !.op = op, !.error = message]

\* what a call that has reached AuditLogger.log() goes on to return: r, unless
\* log() raised and the exception left the call instead
AfterLog(op, r) == IF LogRaises THEN Thrown(op, "QuotaExceededError") ELSE r

\* ChallengeExpired counting the instant expiresAt as expired
ChallengeExpired_inclusive(ch, t) == t >= ch.expiresAt

\* Date.now() > _pendingChallenge.expiresAt (authService.js:128)
ChallengeExpired(ch, t) == t > ch.expiresAt

\* AttemptsExhausted one attempt late
AttemptsExhausted_late(attempts) == attempts > MAX_OTP_ATTEMPTS + 1

\* AttemptsExhausted one attempt early
AttemptsExhausted_early(attempts) == attempts >= MAX_OTP_ATTEMPTS

\* _pendingChallenge.attempts > 3 after the increment (authService.js:140)
AttemptsExhausted(attempts) == attempts > MAX_OTP_ATTEMPTS

\* the challenge requestOTP stores (authService.js:89-101)
NewChallenge(num, otp, transactionId, t) ==
    [aadharHash |-> sha256(num \o VITE_AADHAR_PEPPER),
     otpHash |-> sha256(otp \o transactionId),
     transactionId |-> transactionId,
     expiresAt |-> t + OTP_VALIDITY,
     resident |-> DEMO_RESIDENTS[num],
     attempts |-> 0]

\* the user object verifyOTP builds (authService.js:157-165)
NewUser(resident, sessionToken, t) ==
    [name |-> resident.name, maskedAadhar |-> maskAadhar(<<>>), pan |-> resident.pan,
     dob |-> resident.dob, connectedBrokers |-> <<>>, sessionToken |-> sessionToken,
     loginAt |-> t]

\* requestOTP(aadharRaw), authService.js:51-113, when crypto.getRandomValues
\* delivers word to generateOTP and fill to generateSessionToken
requestOTP(aadharRaw, word, fill) ==
    LET num == StripWhitespace(aadharRaw)
        limit == consume(otpRequestLimiter, now)
        validation == validateAadhar(num)
    IN  /\ otpRequestLimiter' = limit.lim
        /\ UNCHANGED <<now, otpVerifyLimiter, session, limiter, consumed, auditStorage, sideVars>>
        /\ IF ~limit.allowed THEN
             /\ auditLog' = AuditLogger_log(auditLog,
                    [event |-> "OTP_REQUEST_RATE_LIMITED", masked |-> maskAadhar(num)], now)
             /\ result' = AfterLog("requestOTP",
                    [Thrown("requestOTP", "Too many requests") EXCEPT
                       !.lockSeconds = limit.lockSeconds,
                       !.minutes = CeilDiv(limit.lockSeconds, 60)])
             /\ UNCHANGED pendingChallenge
           ELSE IF ~validation.valid THEN
             /\ result' = Thrown("requestOTP", validation.error)
             /\ UNCHANGED <<pendingChallenge, auditLog>>
           ELSE IF num \notin DOMAIN DEMO_RESIDENTS THEN
             /\ auditLog' = AuditLogger_log(auditLog,
                    [event |-> "OTP_REQUEST_UNKNOWN", masked |-> maskAadhar(num)], now)
             /\ result' = AfterLog("requestOTP",
                    [NoResult EXCEPT !.op = "requestOTP", !.ok = TRUE,
                       !.maskedMobile = <<"X", "X", "X", "X", "X", "X", "0", "0", "0", "0">>,
                       !.transactionId = SliceTo(generateSessionToken(fill), TXN_ID_LEN),
                       !.demo = TRUE,
                       !.hint = "Use demo Aadhar: 4991 1866 5246",
                       !.fields = {"maskedMobile", "transactionId", "demo", "hint"}])
             /\ UNCHANGED pendingChallenge
           ELSE
               LET otp == generateOTP(word, OTP_LEN)
                   transactionId == SliceTo(generateSessionToken(fill), TXN_ID_LEN)
                   challenge == NewChallenge(num, otp, transactionId, now)
               IN  /\ pendingChallenge' = challenge
                   /\ auditLog' = AuditLogger_log(auditLog,
                          [event |-> "OTP_SENT", masked |-> maskAadhar(num),
                           transactionId |-> transactionId], now)
                   /\ result' = AfterLog("requestOTP",
                          [NoResult EXCEPT !.op = "requestOTP", !.ok = TRUE,
                             !.maskedMobile = maskMobile(challenge.resident.mobile),
                             !.transactionId = transactionId,
                             !.demo = TRUE,
                             !.demoOTP = otp,
                             !.fields = {"maskedMobile", "transactionId", "demo", "demoOTP"}])

\* HashMatches accepting whatever code is submitted
HashMatches_any(otp, transactionId, ch) == TRUE

\* expectedHash === _pendingChallenge.otpHash (authService.js:145-146)
HashMatches(otp, transactionId, ch) == sha256(otp \o transactionId) = ch.otpHash

\* issueSession leaving the challenge in place
issueSession_keepChallenge(ch, lim, fill) ==
    LET sessionToken == generateSessionToken(fill)
        user == NewUser(ch.resident, sessionToken, now)
    IN  /\ otpVerifyLimiter' = reset(lim)
        /\ pendingChallenge' = [ch EXCEPT !.attempts = ch.attempts + 1]
        /\ session' = SessionManager_save(sessionToken, user, now)
        /\ auditLog' = AuditLogger_log(auditLog,
               [event |-> "LOGIN_SUCCESS", name |-> ch.resident.name,
                sessionToken |-> SliceTo(sessionToken, 8) \o <<".", ".", ".">>], now)
        /\ result' = AfterLog("verifyOTP",
               [NoResult EXCEPT !.op = "verifyOTP", !.ok = TRUE, !.user = user])

\* the success path of verifyOTP (authService.js:151-170) for the challenge ch,
\* whose attempt has been counted, and the verify limiter lim after consume()
issueSession(ch, lim, fill) ==
    LET sessionToken == generateSessionToken(fill)
        user == NewUser(ch.resident, sessionToken, now)
    IN  /\ otpVerifyLimiter' = reset(lim)
        /\ pendingChallenge' = Null
        /\ session' = SessionManager_save(sessionToken, user, now)
        /\ auditLog' = AuditLogger_log(auditLog,
               [event |-> "LOGIN_SUCCESS", name |-> ch.resident.name,
                sessionToken |-> SliceTo(sessionToken, 8) \o <<".", ".", ".">>], now)
        /\ result' = AfterLog("verifyOTP",
               [NoResult EXCEPT !.op = "verifyOTP", !.ok = TRUE, !.user = user])

\* verifyOTP(otp, transactionId), authService.js:119-171, when
\* crypto.getRandomValues delivers fill to generateSessionToken
verifyOTP(otp, transactionId, fill) ==
    LET limit == consume(otpVerifyLimiter, now)
        ch == pendingChallenge
    IN  /\ UNCHANGED <<now, otpRequestLimiter, limiter, consumed, auditStorage, sideVars>>
        /\ IF ~limit.allowed THEN
             /\ otpVerifyLimiter' = limit.lim
             /\ auditLog' = AuditLogger_log(auditLog,
                    [event |-> "OTP_VERIFY_RATE_LIMITED"], now)
             /\ result' = AfterLog("verifyOTP",
                    [Thrown("verifyOTP", "Too many failed attempts") EXCEPT
                       !.lockSeconds = limit.lockSeconds,
                       !.minutes = CeilDiv(limit.lockSeconds, 60)])
             /\ UNCHANGED <<pendingChallenge, session>>
           ELSE IF ch = Null THEN
             /\ otpVerifyLimiter' = limit.lim
             /\ result' = Thrown("verifyOTP", "No active OTP session")
             /\ UNCHANGED <<pendingChallenge, session, auditLog>>
           ELSE IF ChallengeExpired(ch, now) THEN
             /\ otpVerifyLimiter' = limit.lim
             /\ pendingChallenge' = Null
             /\ result' = Thrown("verifyOTP", "OTP has expired")
             /\ UNCHANGED <<session, auditLog>>
           ELSE IF ch.transactionId # transactionId THEN
             /\ otpVerifyLimiter' = limit.lim
             /\ result' = Thrown("verifyOTP", "Session mismatch")
             /\ UNCHANGED <<pendingChallenge, session, auditLog>>
           ELSE IF ~validateOTP(otp).valid THEN
             /\ otpVerifyLimiter' = limit.lim
             /\ result' = Thrown("verifyOTP", validateOTP(otp).error)
             /\ UNCHANGED <<pendingChallenge, session, auditLog>>
           ELSE IF AttemptsExhausted(ch.attempts + 1) THEN
             /\ otpVerifyLimiter' = limit.lim
             /\ pendingChallenge' = Null
             /\ result' = Thrown("verifyOTP", "Too many incorrect attempts")
             /\ UNCHANGED <<session, auditLog>>
           ELSE IF ~HashMatches(otp, transactionId, ch) THEN
             /\ otpVerifyLimiter' = limit.lim
             /\ pendingChallenge' = [ch EXCEPT !.attempts = ch.attempts + 1]
             /\ auditLog' = AuditLogger_log(auditLog,
                    [event |-> "OTP_VERIFY_FAILED", attempt |-> ch.attempts + 1], now)
             /\ result' = AfterLog("verifyOTP",
                    [Thrown("verifyOTP", "Incorrect OTP") EXCEPT
                       !.remaining = MAX_OTP_ATTEMPTS - (ch.attempts + 1)])
             /\ UNCHANGED session
           ELSE issueSession(ch, limit.lim, fill)

\* restoreSession(), authService.js:176-181
restoreSession ==
    LET loaded == SessionManager_load(session, now)
    IN  /\ session' = loaded.store
        /\ UNCHANGED <<now, otpRequestLimiter, otpVerifyLimiter, pendingChallenge,
                       limiter, consumed, auditStorage, calls, hashChecks,
                       allowedAt, validated, compared, unknownTxns, generated>>
        /\ IF loaded.payload = Null THEN
             /\ result' = [NoResult EXCEPT !.op = "restoreSession", !.ok = TRUE]
             /\ UNCHANGED auditLog
           ELSE
             /\ auditLog' = AuditLogger_log(auditLog, [event |-> "SESSION_RESTORED"], now)
             /\ result' = AfterLog("restoreSession",
                    [NoResult EXCEPT !.op = "restoreSession", !.ok = TRUE,
                       !.user = loaded.payload.userMeta])

\* logout() without AuditLogger.clear(): the LOGOUT entry stays in the log
logout_keepLog ==
    /\ session' = SessionManager_clear(session)
    /\ auditLog' = AuditLogger_log(auditLog, [event |-> "LOGOUT"], now)
    /\ pendingChallenge' = Null
    /\ otpRequestLimiter' = reset(otpRequestLimiter)
    /\ otpVerifyLimiter' = reset(otpVerifyLimiter)
    /\ result' = [NoResult EXCEPT !.op = "logout", !.ok = TRUE]
    /\ UNCHANGED <<now, limiter, consumed, auditStorage, sideVars>>

\* logout() leaving the in-flight challenge in place
logout_keepChallenge ==
    /\ session' = SessionManager_clear(session)
    /\ auditLog' = <<>>
    /\ otpRequestLimiter' = reset(otpRequestLimiter)
    /\ otpVerifyLimiter' = reset(otpVerifyLimiter)
    /\ result' = [NoResult EXCEPT !.op = "logout", !.ok = TRUE]
    /\ UNCHANGED <<now, pendingChallenge, limiter, consumed, auditStorage, sideVars>>

\* logout(), authService.js:186-193
logout ==
    /\ UNCHANGED <<now, limiter, consumed, auditStorage, calls, hashChecks,
                   allowedAt, validated, compared, unknownTxns, generated>>
    /\ IF LogRaises THEN
         /\ result' = Thrown("logout", "QuotaExceededError")
         /\ auditLog' = AuditLogger_log(auditLog, [event |-> "LOGOUT"], now)
         /\ UNCHANGED <<session, pendingChallenge, otpRequestLimiter, otpVerifyLimiter>>
       ELSE
         /\ session' = SessionManager_clear(session)
         /\ auditLog' = <<>>
         /\ pendingChallenge' = Null
         /\ otpRequestLimiter' = reset(otpRequestLimiter)
         /\ otpVerifyLimiter' = reset(otpVerifyLimiter)
         /\ result' = [NoResult EXCEPT !.op = "logout", !.ok = TRUE]

-----------------------------------------------------------------------------
(* authService.js: the two async functions between their awaits.            *)
(* verifyOTP awaits once, sha256(otp + transactionId) at l.145, after it has  *)
(* counted the attempt; requestOTP awaits twice, the id hash at l.66 and the  *)
(* otp hash at l.96, the second inside the object literal that is assigned   *)
(* to _pendingChallenge once the hash is there.  While a call waits, other    *)
(* calls and other steps of the page run                                     *)

\* the variables no call of the API touches
notApi == <<now, limiter, consumed, auditStorage, allowedAt, validated, compared,
           unknownTxns, generated>>

\* hashChecks when nothing has been compared with the pending challenge
NoChecks == [submitted |-> 0, stale |-> 0, matched |-> 0]

\* hashChecks after the call compared its hash with the otpHash of ch: the
\* call was submitted for ch when it carries ch's transaction id, and is a
\* leftover of an earlier challenge otherwise
Checked(call, ch) ==
    [submitted |-> hashChecks.submitted
                     + (IF call.transactionId = ch.transactionId THEN 1 ELSE 0),
     stale |-> hashChecks.stale
                     + (IF call.transactionId = ch.transactionId THEN 0 ELSE 1),
     matched |-> hashChecks.matched
                     + (IF HashMatches(call.otp, call.transactionId, ch) THEN 1 ELSE 0)]

\* verifyOTP(otp, transactionId) up to its await (authService.js:119-145),
\* called by c
verifyOTP_begin(c, otp, transactionId) ==
    LET limit == consume(otpVerifyLimiter, now)
        ch == pendingChallenge
    IN  /\ calls[c] = Idle
        /\ otpVerifyLimiter' = limit.lim
        /\ UNCHANGED <<otpRequestLimiter, session, hashChecks, notApi>>
        /\ IF ~limit.allowed THEN
             /\ auditLog' = AuditLogger_log(auditLog,
                    [event |-> "OTP_VERIFY_RATE_LIMITED"], now)
             /\ result' = AfterLog("verifyOTP",
                    [Thrown("verifyOTP", "Too many failed attempts") EXCEPT
                       !.lockSeconds = limit.lockSeconds,
                       !.minutes = CeilDiv(limit.lockSeconds, 60)])
             /\ UNCHANGED <<pendingChallenge, calls>>
           ELSE IF ch = Null THEN
             /\ result' = Thrown("verifyOTP", "No active OTP session")
             /\ UNCHANGED <<pendingChallenge, auditLog, calls>>
           ELSE IF ChallengeExpired(ch, now) THEN
             /\ pendingChallenge' = Null
             /\ result' = Thrown("verifyOTP", "OTP has expired")
             /\ UNCHANGED <<auditLog, calls>>
           ELSE IF ch.transactionId # transactionId THEN
             /\ result' = Thrown("verifyOTP", "Session mismatch")
             /\ UNCHANGED <<pendingChallenge, auditLog, calls>>
           ELSE IF ~validateOTP(otp).valid THEN
             /\ result' = Thrown("verifyOTP", validateOTP(otp).error)
             /\ UNCHANGED <<pendingChallenge, auditLog, calls>>
           ELSE IF AttemptsExhausted(ch.attempts + 1) THEN
             /\ pendingChallenge' = Null
             /\ result' = Thrown("verifyOTP", "Too many incorrect attempts")
             /\ UNCHANGED <<auditLog, calls>>
           ELSE
             /\ pendingChallenge' = [ch EXCEPT !.attempts = ch.attempts + 1]
             /\ calls' = [calls EXCEPT ![c] =
                            [pc |-> "awaitHash", otp |-> otp,
                             transactionId |-> transactionId]]
             /\ UNCHANGED <<auditLog, result>>

\* verifyOTP after its await (authService.js:146-170): expectedHash is there,
\* and _pendingChallenge is read again, whatever it is by now; reading
\* .otpHash of null raises a TypeError
verifyOTP_resume(c, fill) ==
    LET call == calls[c]
        ch == pendingChallenge
    IN  /\ call.pc = "awaitHash"
        /\ calls' = [calls EXCEPT ![c] = Idle]
        /\ UNCHANGED <<otpRequestLimiter, notApi>>
        /\ IF ch = Null THEN
             /\ result' = Thrown("verifyOTP", "TypeError")
             /\ UNCHANGED <<otpVerifyLimiter, pendingChallenge, session, auditLog,
                            hashChecks>>
           ELSE
             /\ hashChecks' = Checked(call, ch)
             /\ IF ~HashMatches(call.otp, call.transactionId, ch) THEN
                  /\ auditLog' = AuditLogger_log(auditLog,
                         [event |-> "OTP_VERIFY_FAILED", attempt |-> ch.attempts], now)
                  /\ result' = AfterLog("verifyOTP",
                         [Thrown("verifyOTP", "Incorrect OTP") EXCEPT
                            !.remaining = MAX_OTP_ATTEMPTS - ch.attempts])
                  /\ UNCHANGED <<otpVerifyLimiter, pendingChallenge, session>>
                ELSE issueSession(ch, otpVerifyLimiter, fill)

\* requestOTP(aadharRaw) up to its first await (authService.js:51-66)
requestOTP_begin(c, aadharRaw) ==
    LET num == StripWhitespace(aadharRaw)
        limit == consume(otpRequestLimiter, now)
        validation == validateAadhar(num)
    IN  /\ calls[c] = Idle
        /\ otpRequestLimiter' = limit.lim
        /\ UNCHANGED <<otpVerifyLimiter, pendingChallenge, session, hashChecks, notApi>>
        /\ IF ~limit.allowed THEN
             /\ auditLog' = AuditLogger_log(auditLog,
                    [event |-> "OTP_REQUEST_RATE_LIMITED", masked |-> maskAadhar(num)], now)
             /\ result' = AfterLog("requestOTP",
                    [Thrown("requestOTP", "Too many requests") EXCEPT
                       !.lockSeconds = limit.lockSeconds,
                       !.minutes = CeilDiv(limit.lockSeconds, 60)])
             /\ UNCHANGED calls
           ELSE IF ~validation.valid THEN
             /\ result' = Thrown("requestOTP", validation.error)
             /\ UNCHANGED <<auditLog, calls>>
           ELSE
             /\ calls' = [calls EXCEPT ![c] = [pc |-> "awaitAadharHash", num |-> num]]
             /\ UNCHANGED <<auditLog, result>>

\* requestOTP between its awaits (authService.js:66-96): the lookup, and for a
\* resident the otp, the transaction id and expiresAt, all before the otp hash
\* is awaited
requestOTP_lookup(c, word, fill) ==
    LET call == calls[c]
    IN  /\ call.pc = "awaitAadharHash"
        /\ UNCHANGED <<otpRequestLimiter, otpVerifyLimiter, pendingChallenge, session,
                       hashChecks, now, limiter, consumed, auditStorage, allowedAt,
                       validated, compared, generated>>
        /\ IF call.num \notin DOMAIN DEMO_RESIDENTS THEN
             /\ calls' = [calls EXCEPT ![c] = Idle]
             /\ auditLog' = AuditLogger_log(auditLog,
                    [event |-> "OTP_REQUEST_UNKNOWN", masked |-> maskAadhar(call.num)], now)
             /\ result' = AfterLog("requestOTP",
                    [NoResult EXCEPT !.op = "requestOTP", !.ok = TRUE,
                       !.maskedMobile = <<"X", "X", "X", "X", "X", "X", "0", "0", "0", "0">>,
                       !.transactionId = SliceTo(generateSessionToken(fill), TXN_ID_LEN),
                       !.demo = TRUE,
                       !.hint = "Use demo Aadhar: 4991 1866 5246",
                       !.fields = {"maskedMobile", "transactionId", "demo", "hint"}])
             /\ unknownTxns' =
                    unknownTxns \cup {SliceTo(generateSessionToken(fill), TXN_ID_LEN)}
           ELSE
             /\ calls' = [calls EXCEPT ![c] =
                            [pc |-> "awaitOtpHash", num |-> call.num,
                             otp |-> generateOTP(word, OTP_LEN),
                             transactionId |-> SliceTo(generateSessionToken(fill), TXN_ID_LEN),
                             at |-> now]]
             /\ UNCHANGED <<auditLog, result, unknownTxns>>

\* requestOTP after its second await (authService.js:94-112): the challenge is
\* assigned, with the expiresAt computed before the await
requestOTP_store(c) ==
    LET call == calls[c]
        challenge == NewChallenge(call.num, call.otp, call.transactionId, call.at)
    IN  /\ call.pc = "awaitOtpHash"
        /\ calls' = [calls EXCEPT ![c] = Idle]
        /\ pendingChallenge' = challenge
        /\ hashChecks' = NoChecks
        /\ auditLog' = AuditLogger_log(auditLog,
               [event |-> "OTP_SENT", masked |-> maskAadhar(call.num),
                transactionId |-> call.transactionId], now)
        /\ result' = AfterLog("requestOTP",
               [NoResult EXCEPT !.op = "requestOTP", !.ok = TRUE,
                  !.maskedMobile = maskMobile(challenge.resident.mobile),
                  !.transactionId = call.transactionId,
                  !.demo = TRUE,
                  !.demoOTP = call.otp,
                  !.fields = {"maskedMobile", "transactionId", "demo", "demoOTP"}])
        /\ UNCHANGED <<otpRequestLimiter, otpVerifyLimiter, session, notApi>>

-----------------------------------------------------------------------------
(* A RateLimiter on its own: the calls of consume() and reset() *)

\* the shape of consumed: the call, the limiter it was made on, Date.now() at
\* the call, and the object consume() returned
NoCall ==
    [op |-> "none", before |-> Null, at |-> 0,
     allowed |-> FALSE, remaining |-> 0, lockSeconds |-> 0]

\* Date.now() moves on by d
Advance(d) ==
    /\ now' = now + d
    /\ UNCHANGED <<authVars, limiter, consumed, auditStorage, sideVars>>

LimiterConsume ==
    LET r == consume(limiter, now)
    IN  /\ limiter' = r.lim
        /\ consumed' = [op |-> "consume", before |-> limiter, at |-> now,
                        allowed |-> r.allowed, remaining |-> r.remaining,
                        lockSeconds |-> r.lockSeconds]
        /\ allowedAt' = IF r.allowed THEN Append(allowedAt, now) ELSE allowedAt
        /\ UNCHANGED <<now, authVars, auditStorage, calls, hashChecks, validated,
                       compared, unknownTxns, state, generated>>

LimiterReset ==
    /\ limiter' = reset(limiter)
    /\ consumed' = [NoCall EXCEPT !.op = "reset", !.before = limiter, !.at = now]
    /\ allowedAt' = <<>>
    /\ UNCHANGED <<now, authVars, auditStorage, calls, hashChecks, validated,
                   compared, unknownTxns, state, generated>>

LimiterTick ==
    /\ now < MaxLimiterTicks * LimiterTickMs
    /\ Advance(LimiterTickMs)

\* the limiters the program constructs (authService.js:33-34)
LimiterParams == {<<REQUEST_MAX, REQUEST_WINDOW>>, <<VERIFY_MAX, VERIFY_WINDOW>>}

InitLimiter ==
    /\ now = 0
    /\ otpRequestLimiter = NewRateLimiter(REQUEST_MAX, REQUEST_WINDOW)
    /\ otpVerifyLimiter = NewRateLimiter(VERIFY_MAX, VERIFY_WINDOW)
    /\ pendingChallenge = Null
    /\ session = Null
    /\ auditLog = <<>>
    /\ result = NoResult
    /\ limiter \in {NewRateLimiter(p[1], p[2]) : p \in LimiterParams}
    /\ consumed = NoCall
    /\ auditStorage = "ok"
    /\ calls = NoCalls
    /\ hashChecks = NoChecks
    /\ allowedAt = <<>>
    /\ validated = NoValidation
    /\ compared = NoComparison
    /\ unknownTxns = {}
    /\ state = initialState
    /\ generated = NoOtp

NextLimiter == LimiterConsume \/ LimiterReset \/ LimiterTick

SpecLimiter == InitLimiter /\ [][NextLimiter]_vars

-----------------------------------------------------------------------------
(* The environment: the clock and the calls the user interface makes *)

AadharValidRegistered ==
    Str12(<<"4", "9", "9", "1">>, <<"1", "8", "6", "6">>, <<"5", "2", "4", "6">>)
AadharSpaced ==
    <<"4", "9", "9", "1", " ">> \o <<"1", "8", "6", "6", " ">> \o <<"5", "2", "4", "6">>
AadharValidUnknown ==
    Str12(<<"2", "3", "4", "1">>, <<"2", "3", "4", "1">>, <<"2", "3", "4", "6">>)
AadharBadChecksum ==
    Str12(<<"2", "3", "4", "1">>, <<"2", "3", "4", "1">>, <<"2", "3", "4", "8">>)
AadharBadFirstDigit ==
    Str12(<<"1", "1", "1", "1">>, <<"1", "1", "1", "1">>, <<"1", "1", "1", "1">>)

AadharInputs ==
    {AadharValidRegistered, AadharSpaced, AadharValidUnknown, AadharBadChecksum,
     AadharBadFirstDigit}

OtpSent == generateOTP(RandomWord, OTP_LEN)
OtpNeverSent == <<"0", "0", "0", "0", "0", "0">>
OtpMalformed == <<"1", "2", "3", "4", "5">>
OtpInputs == {OtpSent, OtpNeverSent, OtpMalformed}

TxnA == SliceTo(generateSessionToken(FillA), TXN_ID_LEN)
TxnB == SliceTo(generateSessionToken(FillB), TXN_ID_LEN)
TxnInputs == {TxnA, TxnB}

Init ==
    /\ now = 0
    /\ otpRequestLimiter = NewRateLimiter(REQUEST_MAX, REQUEST_WINDOW)
    /\ otpVerifyLimiter = NewRateLimiter(VERIFY_MAX, VERIFY_WINDOW)
    /\ pendingChallenge = Null
    /\ session = Null
    /\ auditLog = <<>>
    /\ result = NoResult
    /\ limiter = NewRateLimiter(VERIFY_MAX, VERIFY_WINDOW)
    /\ consumed = NoCall
    /\ auditStorage = "ok"
    /\ calls = NoCalls
    /\ hashChecks = NoChecks
    /\ allowedAt = <<>>
    /\ validated = NoValidation
    /\ compared = NoComparison
    /\ unknownTxns = {}
    /\ state = initialState
    /\ generated = NoOtp

\* the audit log holds n entries at most after the step
LogWithin(n) == Len(auditLog') <= n

(* Spec: the four calls of the API, made for the registered resident; every   *)
(* token generated is the same one, and TxnB is a transaction id never issued *)
Tick == now < MaxTicks * TickMs /\ Advance(TickMs)
Request == requestOTP(AadharValidRegistered, RandomWord, FillA) /\ LogWithin(MaxAudit)
Verify ==
    \E o \in OtpInputs, x \in TxnInputs : verifyOTP(o, x, FillA) /\ LogWithin(MaxAudit)
Restore == restoreSession /\ LogWithin(MaxAudit) /\ UNCHANGED state
Logout == logout /\ UNCHANGED state

Next == Request \/ Verify \/ Restore \/ Logout \/ Tick

Spec == Init /\ [][Next]_vars

(* SpecRequest: the request phase, for every kind of id and two tokens *)
RequestTick == now < RequestTicks * TickMs /\ Advance(TickMs)
RequestAny ==
    \E a \in AadharInputs, f \in {FillA, FillB} :
        requestOTP(a, RandomWord, f) /\ LogWithin(RequestAudit)

NextRequest == RequestAny \/ Logout \/ RequestTick

SpecRequest == Init /\ [][NextRequest]_vars

(* SpecSession: the life of a Session: the resident logs in with the code   *)
(* sent, the page restores the Session, logs out; the clock runs past the    *)
(* TTL. Every token generated is the same one                                *)
SessionTick == now < SessionTicks * SessionTickMs /\ Advance(SessionTickMs)
SessionRequest ==
    requestOTP(AadharValidRegistered, RandomWord, FillA) /\ LogWithin(SessionAudit)
SessionVerify == verifyOTP(OtpSent, TxnA, FillA) /\ LogWithin(SessionAudit)
SessionRestore == restoreSession /\ LogWithin(SessionAudit) /\ UNCHANGED state

NextSession ==
    SessionRequest \/ SessionVerify \/ SessionRestore \/ Logout \/ SessionTick

SpecSession == Init /\ [][NextSession]_vars

(* SpecAudit: AuditLogger.log() called once every AuditTickMs, never cleared, *)
(* so that the n-th entry appended is the one with ts = n * AuditTickMs       *)
AuditEvents == {"SESSION_RESTORED"}
AuditAppend ==
    /\ now < AuditCalls * AuditTickMs
    /\ now' = now + AuditTickMs
    /\ \E e \in AuditEvents :
          auditLog' = AuditLogger_log(auditLog, [event |-> e], now')
    /\ UNCHANGED <<otpRequestLimiter, otpVerifyLimiter, pendingChallenge, session,
                   result, limiter, consumed, auditStorage, sideVars>>

NextAudit == AuditAppend

SpecAudit == Init /\ [][NextAudit]_vars

(* SpecFault: the API while sessionStorage fails for the audit log: at any   *)
(* moment writing it or reading it may start or stop raising                 *)
StorageModes == {"ok", "writeFails", "readFails"}
FaultSet ==
    /\ \E m \in StorageModes \ {auditStorage} : auditStorage' = m
    /\ UNCHANGED <<now, authVars, limiter, consumed, sideVars>>
FaultRequest ==
    \E a \in {AadharValidRegistered, AadharValidUnknown} :
        requestOTP(a, RandomWord, FillA) /\ LogWithin(FaultAudit)
FaultVerify ==
    \E o \in {OtpSent, OtpNeverSent} : verifyOTP(o, TxnA, FillA) /\ LogWithin(FaultAudit)
FaultRestore == restoreSession /\ LogWithin(FaultAudit) /\ UNCHANGED state

NextFault == FaultRequest \/ FaultVerify \/ FaultRestore \/ Logout \/ FaultSet

SpecFault == Init /\ [][NextFault]_vars

(* SpecValidate: validateAadhar applied to the ids of the other             *)
(* specifications and to a family of ids with a correct check digit, then    *)
(* to every id one digit or one adjacent transposition away from those        *)

\* the prefixes of 11 digits of the family: a first digit, fixed digits, and
\* FreeDigits digits that take every value
RECURSIVE DigitStrings(_)
DigitStrings(n) ==
    IF n = 0 THEN {<<>>}
    ELSE {s \o <<d>> : s \in DigitStrings(n - 1), d \in {DigitChars[k] : k \in 1..10}}

FixedDigits == <<"9", "0", "1", "8", "2", "7", "3", "6", "4", "5">>

IdPrefixes ==
    {<<a>> \o SliceTo(FixedDigits, AADHAR_LEN - 2 - FreeDigits) \o f :
        a \in {DigitChars[k] : k \in 1..10}, f \in DigitStrings(FreeDigits)}

\* the id of 12 digits with the given prefix that validateVerhoeff accepts
WithCheckDigit(prefix) ==
    prefix \o <<CHOOSE d \in {DigitChars[k] : k \in 1..10} : validateVerhoeff(prefix \o <<d>>)>>

ValidateInputs ==
    AadharInputs \cup {SliceTo(AadharValidRegistered, AADHAR_LEN - 1)}
                 \cup {WithCheckDigit(p) : p \in IdPrefixes}

\* what validateAadhar(raw) returns, kept with raw and with the edit that made
\* raw out of an accepted id
Validated(raw, edit) ==
    [input |-> raw, valid |-> validateAadhar(raw).valid,
     error |-> validateAadhar(raw).error, edit |-> edit]

\* the variables no validator touches
notValidated ==
    <<now, authVars, limiter, consumed, auditStorage, calls, hashChecks, allowedAt,
      compared, unknownTxns, state, generated>>

\* the first call: validateAadhar is applied to one of the inputs
ValidateInput ==
    /\ validated = NoValidation
    /\ \E raw \in ValidateInputs : validated' = Validated(raw, "none")
    /\ UNCHANGED notValidated

\* one digit of an accepted id is replaced by another digit
ValidateChanged ==
    /\ validated.valid
    /\ validated.edit = "none"
    /\ \E i \in 1..Len(validated.input), d \in {DigitChars[k] : k \in 1..10} :
          /\ IsDigit(validated.input[i])
          /\ d # validated.input[i]
          /\ validated' = Validated([validated.input EXCEPT ![i] = d], "digit")
    /\ UNCHANGED notValidated

\* two adjacent unequal digits of an accepted id change places
ValidateSwapped ==
    /\ validated.valid
    /\ validated.edit = "none"
    /\ \E i \in 1..(Len(validated.input) - 1) :
          /\ IsDigit(validated.input[i])
          /\ IsDigit(validated.input[i + 1])
          /\ validated.input[i] # validated.input[i + 1]
          /\ validated' = Validated([validated.input EXCEPT ![i] = validated.input[i + 1],
                                                            ![i + 1] = validated.input[i]],
                                    "swap")
    /\ UNCHANGED notValidated

NextValidate == ValidateInput \/ ValidateChanged \/ ValidateSwapped

SpecValidate == Init /\ [][NextValidate]_vars

(* SpecOverlap: calls that overlap.  sendOTP has one requestOTP call in       *)
(* flight at most, handleSubmit and the auto-submit effect one verifyOTP call  *)
(* each; restoreSession and logout are synchronous and run between the         *)
(* stretches of the others.  The clock moves once, past the validity of a      *)
(* code.  crypto.getRandomValues never repeats a value that is still in use:   *)
(* a new transaction id differs from those of the pending challenge and of     *)
(* the calls in flight, and from those already returned for unknown ids        *)
VerifyCallers == {"handleSubmit", "autoSubmit"}

TxnInUse ==
    (IF pendingChallenge = Null THEN {} ELSE {pendingChallenge.transactionId})
       \cup {calls[c].transactionId : c \in {d \in Callers : calls[d].pc \in {"awaitHash", "awaitOtpHash"}}}
       \cup unknownTxns

\* a random source that may repeat a value still in use
FreshFills_any == {FillA, FillB}

FreshFills == {f \in {FillA, FillB} : SliceTo(generateSessionToken(f), TXN_ID_LEN) \notin TxnInUse}

\* what the verify calls carry: the code sent with either transaction id, and
\* a wrong code
OverlapVerifyInputs == {<<OtpSent, TxnA>>, <<OtpSent, TxnB>>, <<OtpNeverSent, TxnA>>}

OverlapExpire == now = 0 /\ pendingChallenge # Null /\ Advance(FailTickMs)

OverlapRequestBegin ==
    /\ requestOTP_begin("sendOTP", AadharValidRegistered)
    /\ LogWithin(OverlapAudit) /\ UNCHANGED state

OverlapRequestLookup ==
    \E f \in FreshFills : requestOTP_lookup("sendOTP", RandomWord, f) /\ LogWithin(OverlapAudit) /\ UNCHANGED state

OverlapRequestStore == requestOTP_store("sendOTP") /\ LogWithin(OverlapAudit) /\ UNCHANGED state

OverlapVerifyBegin ==
    \E c \in VerifyCallers, i \in OverlapVerifyInputs :
        verifyOTP_begin(c, i[1], i[2]) /\ LogWithin(OverlapAudit) /\ UNCHANGED state

OverlapVerifyResume ==
    \E c \in VerifyCallers : verifyOTP_resume(c, FillA) /\ LogWithin(OverlapAudit) /\ UNCHANGED state

OverlapRestore == restoreSession /\ LogWithin(OverlapAudit) /\ UNCHANGED state

OverlapLogout == logout /\ UNCHANGED state

NextOverlap ==
    \/ OverlapRequestBegin \/ OverlapRequestLookup \/ OverlapRequestStore
    \/ OverlapVerifyBegin \/ OverlapVerifyResume
    \/ OverlapRestore \/ OverlapLogout \/ OverlapExpire

SpecOverlap == Init /\ [][NextOverlap]_vars

(* SpecBrute: the verify calls made on a challenge, overlapping or not, with   *)
(* room in the log for the three failures a challenge allows; requestOTP runs  *)
(* in its three stretches in between, and the clock stands still               *)
NextBrute ==
    \/ requestOTP_begin("sendOTP", AadharValidRegistered) /\ LogWithin(BruteAudit) /\ UNCHANGED state
    \/ \E f \in FreshFills :
         requestOTP_lookup("sendOTP", RandomWord, f) /\ LogWithin(BruteAudit) /\ UNCHANGED state
    \/ requestOTP_store("sendOTP") /\ LogWithin(BruteAudit) /\ UNCHANGED state
    \/ \E c \in VerifyCallers, i \in OverlapVerifyInputs :
         verifyOTP_begin(c, i[1], i[2]) /\ LogWithin(BruteAudit) /\ UNCHANGED state
    \/ \E c \in VerifyCallers : verifyOTP_resume(c, FillA) /\ LogWithin(BruteAudit) /\ UNCHANGED state

SpecBrute == Init /\ [][NextBrute]_vars

(* SpecUnknown: requests with a registered id and with a valid id the registry *)
(* does not hold, verify calls with either transaction id, and logout          *)
NextUnknown ==
    \/ \E a \in {AadharValidRegistered, AadharValidUnknown} :
         requestOTP_begin("sendOTP", a) /\ LogWithin(UnknownAudit) /\ UNCHANGED state
    \/ \E f \in FreshFills :
         requestOTP_lookup("sendOTP", RandomWord, f) /\ LogWithin(UnknownAudit) /\ UNCHANGED state
    \/ requestOTP_store("sendOTP") /\ LogWithin(UnknownAudit) /\ UNCHANGED state
    \/ \E c \in VerifyCallers, o \in {OtpSent, OtpNeverSent}, x \in TxnInputs :
         verifyOTP_begin(c, o, x) /\ LogWithin(UnknownAudit) /\ UNCHANGED state
    \/ \E c \in VerifyCallers : verifyOTP_resume(c, FillA) /\ LogWithin(UnknownAudit) /\ UNCHANGED state
    \/ logout /\ UNCHANGED state

SpecUnknown == Init /\ [][NextUnknown]_vars

(* SpecAuth: AuthProvider (part_001) over the service.  Init is the page     *)
(* after its mount effect found no stored session.  dispatch() is applied to  *)
(* state in the order of the calls; a handler runs up to the first await of   *)
(* the service call it makes, and goes on when that call goes on.  The        *)
(* forms act where their own code lets them: the login form submits in the    *)
(* phase 'idle' (its controls are disabled while 'requesting',                *)
(* BrokerConnect.jsx:224), the code form submits, by its button               *)
(* (OTPVerification.jsx:43-47) or by its effect (61-65), in 'otp_sent' and    *)
(* not while 'verifying', and its Back and Resend buttons (49-56, 68) are     *)
(* never disabled.  confirmOTP carries the state.transactionId of the render  *)
(* it was made in                                                             *)

\* handleLogout, part_001:64-67
handleLogout ==
    /\ state.user # Null
    /\ logout
    /\ state' = reducer(state, [type |-> "LOGOUT"])

\* goBack, part_001:69, from the Back and Resend buttons of the code form
goBack ==
    /\ state.phase \in {"otp_sent", "verifying"}
    /\ state' = reducer(state, [type |-> "BACK_TO_AADHAR"])
    /\ UNCHANGED <<authVars, calls, hashChecks, notApi>>

NextAuth ==
    \/ /\ state.phase = "idle"
       /\ requestOTP_begin("sendOTP", AadharValidRegistered)
       /\ LogWithin(AuthAudit)
       /\ state' = IF calls'["sendOTP"] = Idle
                   THEN reducer(reducer(state, [type |-> "REQUEST_START"]),
                                sendOTP_dispatch(result'))
                   ELSE reducer(state, [type |-> "REQUEST_START"])
    \/ \E f \in FreshFills :
         /\ requestOTP_lookup("sendOTP", RandomWord, f)
         /\ LogWithin(AuthAudit)
         /\ state' = IF calls'["sendOTP"] = Idle
                     THEN reducer(state, sendOTP_dispatch(result'))
                     ELSE state
    \/ /\ requestOTP_store("sendOTP")
       /\ LogWithin(AuthAudit)
       /\ state' = reducer(state, sendOTP_dispatch(result'))
    \/ \E c \in VerifyCallers, otp \in {OtpSent, OtpNeverSent} :
         /\ state.phase = "otp_sent"
         /\ verifyOTP_begin(c, otp, state.transactionId)
         /\ LogWithin(AuthAudit)
         /\ state' = IF calls'[c] = Idle
                     THEN reducer(reducer(state, [type |-> "VERIFY_START"]),
                                  confirmOTP_dispatch(result'))
                     ELSE reducer(state, [type |-> "VERIFY_START"])
    \/ \E c \in VerifyCallers :
         /\ verifyOTP_resume(c, FillA)
         /\ LogWithin(AuthAudit)
         /\ state' = reducer(state, confirmOTP_dispatch(result'))
    \/ handleLogout
    \/ goBack

SpecAuth == Init /\ [][NextAuth]_vars

(* SpecOtp: generateOTP(len) (part_002:66-71) on its own, for len from 1 to    *)
(* MaxOtpLen and random words with one to ten digits.  The words are those of  *)
(* the lower half of the Uint32 range; the upper half has ten digits too       *)
OtpWords ==
    {RandomWord % (10 ^ k) : k \in 0..9} \cup {10 ^ k : k \in 0..9}
        \cup {RandomWord, 2147483647}

\* one call of generateOTP(len): the function has no throw statement and
\* returns for every len
GenerateOTP ==
    /\ \E w \in OtpWords, len \in 1..MaxOtpLen :
          generated' = [op |-> "generateOTP", word |-> w, len |-> len,
                        otp |-> generateOTP(w, len), threw |-> FALSE]
    /\ UNCHANGED <<now, authVars, limiter, consumed, auditStorage, calls, hashChecks,
                   allowedAt, validated, compared, unknownTxns, state>>

SpecOtp == Init /\ [][GenerateOTP]_vars

(* SpecCompare: the comparison expectedHash !== _pendingChallenge.otpHash of  *)
(* verifyOTP (authService.js:146) on its own, for digests of DigestLen        *)
(* characters out of three hex digits.  The language fixes the value of !== and not the work it      *)
(* takes: an engine may stop at the first code unit that differs or examine   *)
(* them all, and the page runs in one engine                                  *)
Engines == {"stopsAtFirstDifference", "examinesAll"}

\* the digests of n characters
DigestChars == {"0", "a", "f"}
RECURSIVE Digests(_)
Digests(n) ==
    IF n = 0 THEN {<<>>}
    ELSE {s \o <<c>> : s \in Digests(n - 1), c \in DigestChars}

\* the digests stored as otpHash in this specification
StoredDigests == {[i \in 1..DigestLen |-> "a"], [i \in 1..DigestLen |-> "0"]}

\* the code units a !== b examines in the given engine, for strings of the
\* same length (two digests)
StrictNotEqualExamined(a, b, engine) ==
    IF engine = "examinesAll" \/ a = b THEN Len(a)
    ELSE CHOOSE i \in 1..Len(a) : a[i] # b[i] /\ \A j \in 1..(i - 1) : a[j] = b[j]

CompareHashes ==
    /\ \E e \in Engines, expectedHash \in Digests(DigestLen), otpHash \in StoredDigests :
          /\ compared.engine \in {"none", e}
          /\ compared' = [engine |-> e, expected |-> expectedHash, stored |-> otpHash,
                          differ |-> expectedHash # otpHash,
                          examined |-> StrictNotEqualExamined(expectedHash, otpHash, e)]
    /\ UNCHANGED <<now, authVars, limiter, consumed, auditStorage, calls, hashChecks,
                   allowedAt, validated, unknownTxns, state, generated>>

NextCompare == CompareHashes

SpecCompare == Init /\ [][NextCompare]_vars

(* SpecFailure: the calls that fail, in every way the taxonomy names:        *)
(* request with a registered and with invalid ids, verify with the inputs    *)
(* that cannot succeed, at two instants: 0, and, once a code is pending,     *)
(* FailTickMs later, when a code sent at 0 has expired                       *)
FailExpire == now = 0 /\ pendingChallenge # Null /\ Advance(FailTickMs)
FailRequest ==
    \E a \in {AadharValidRegistered, AadharBadChecksum, AadharBadFirstDigit} :
        requestOTP(a, RandomWord, FillA) /\ LogWithin(FailAudit)
FailVerify ==
    \E o \in {OtpNeverSent, OtpMalformed}, x \in TxnInputs :
        verifyOTP(o, x, FillA) /\ LogWithin(FailAudit)

NextFailure == FailRequest \/ FailVerify \/ FailExpire

SpecFailure == Init /\ [][NextFailure]_vars

-----------------------------------------------------------------------------
(* Claims about the RateLimiter, checked under SpecLimiter *)

\* the limiter the last call was made on held a lock still in the future
WasLocked == consumed.before.lockUntil # NO_LOCK /\ consumed.at < consumed.before.lockUntil

\* attempts the limiter had recorded less than one window before the last call
RecentBefore ==
    Cardinality({i \in DOMAIN consumed.before.attempts :
                    consumed.at - consumed.before.attempts[i] < consumed.before.window})

\* C8: on a limiter that is not locked, the call of consume() that is the k-th
\* within one window returns allowed with remaining = max - k while k < max;
\* the max-th returns not allowed, sets lockUntil = now + window, empties the
\* attempts and reports the whole window as lockSeconds.
C8_LocksOnMaxthCall ==
    (consumed.op = "consume" /\ ~WasLocked) =>
        LET k == RecentBefore + 1
            max == consumed.before.max
            window == consumed.before.window
        IN  /\ k <= max
            /\ k < max =>
                 /\ consumed.allowed
                 /\ consumed.remaining = max - k
                 /\ Len(limiter.attempts) = k
                 /\ limiter.lockUntil = NO_LOCK
            /\ k = max =>
                 /\ ~consumed.allowed
                 /\ limiter.lockUntil = consumed.at + window
                 /\ limiter.attempts = <<>>
                 /\ consumed.lockSeconds * 1000 = window

\* C8 witness: a consume() that was the max-th within the window has locked
C8_Witness ==
    /\ consumed.op = "consume"
    /\ ~WasLocked
    /\ RecentBefore + 1 = consumed.before.max
    /\ ~consumed.allowed
    /\ limiter.lockUntil = consumed.at + limiter.window

\* every attempt recorded before the last call was a whole window old, and any
\* lock had run out
AllStaleBefore ==
    /\ \A i \in DOMAIN consumed.before.attempts :
          consumed.at - consumed.before.attempts[i] >= consumed.before.window
    /\ consumed.before.lockUntil = NO_LOCK \/ consumed.before.lockUntil <= consumed.at

\* C9: a consume() made when every recorded attempt is at least one window old
\* and any lockUntil is <= now returns allowed with remaining = max - 1 and
\* leaves the limiter as a first call on a new limiter would.
C9_StaleAttemptsAndLocksIgnored ==
    (consumed.op = "consume" /\ AllStaleBefore) =>
        /\ consumed.allowed
        /\ consumed.remaining = consumed.before.max - 1
        /\ limiter.attempts = <<consumed.at>>
        /\ limiter.lockUntil = NO_LOCK

\* C9 witness: consume() was allowed at the instant a lock ran out
C9_Witness ==
    /\ consumed.op = "consume"
    /\ consumed.before.lockUntil # NO_LOCK
    /\ consumed.before.lockUntil = consumed.at
    /\ consumed.allowed

\* C10: reset() leaves the limiter without lock and without attempts, whatever
\* it held; a consume() on a limiter in that state returns allowed with
\* remaining = max - 1, as the first consume() on a new limiter does.
C10_ResetClearsLockAndHistory ==
    /\ consumed.op = "reset" =>
          /\ limiter.attempts = <<>>
          /\ limiter.lockUntil = NO_LOCK
          /\ limiter.max = consumed.before.max
          /\ limiter.window = consumed.before.window
    /\ (consumed.op = "consume" /\ consumed.before.attempts = <<>>
            /\ consumed.before.lockUntil = NO_LOCK) =>
          /\ consumed.allowed
          /\ consumed.remaining = consumed.before.max - 1

\* C10 witness: reset() was called on a locked limiter
C10_Witness ==
    /\ consumed.op = "reset"
    /\ WasLocked
    /\ limiter.lockUntil = NO_LOCK

-----------------------------------------------------------------------------
(* Claims about verifyOTP, checked under Spec *)

\* consume() on limiter l at time t would answer allowed: no lock is running and
\* the attempt it records is not the max-th inside the window
Admits(l, t) ==
    /\ (l.lockUntil = NO_LOCK \/ t >= l.lockUntil)
    /\ Cardinality({i \in DOMAIN l.attempts : t - l.attempts[i] < l.window}) + 1 < l.max

\* hash(code + txId) equals the otpHash stored at request time
SameHash(o, x) == sha256(o \o x) = pendingChallenge.otpHash

\* C1 as stated: for a stored Challenge, verify(code, txId) succeeds if and only
\* if hash(code + txId) equals the stored otpHash
C1_Original ==
    [][\A o \in OtpInputs, x \in TxnInputs :
          (pendingChallenge # Null /\ verifyOTP(o, x, FillA))
              => (result'.ok <=> SameHash(o, x))]_vars

\* C1 (amended): verify(code, txId) succeeds if and only if a Challenge is
\* stored, txId is its transactionId, hash(code + txId) equals its otpHash, the
\* verify limiter admits the call, now is not past expiresAt and fewer than 3
\* codes were compared against the Challenge before; every other call fails
C1_VerifySucceedsIff ==
    [][\A o \in OtpInputs, x \in TxnInputs :
          verifyOTP(o, x, FillA)
              => (result'.ok <=>
                    /\ pendingChallenge # Null
                    /\ x = pendingChallenge.transactionId
                    /\ SameHash(o, x)
                    /\ Admits(otpVerifyLimiter, now)
                    /\ now <= pendingChallenge.expiresAt
                    /\ pendingChallenge.attempts < MAX_OTP_ATTEMPTS)]_vars

\* a verify call has just succeeded after a wrong code had been counted
C1_Witness ==
    /\ result.op = "verifyOTP" /\ result.ok
    /\ \E i \in DOMAIN auditLog : auditLog[i].event = "OTP_VERIFY_FAILED"
    /\ auditLog[Len(auditLog)].event = "LOGIN_SUCCESS"

\* C2 as stated: a verify call made when now >= expiresAt fails with
\* ChallengeExpired and the Challenge is discarded
C2_Original ==
    [][\A o \in OtpInputs, x \in TxnInputs :
          (/\ pendingChallenge # Null
           /\ now >= pendingChallenge.expiresAt
           /\ verifyOTP(o, x, FillA))
              => (result'.error = "OTP has expired" /\ pendingChallenge' = Null)]_vars

\* C2 (amended): a verify call made when now > expiresAt never succeeds: when
\* the verify limiter admits it, it fails with ChallengeExpired whatever the code
\* and transactionId and the Challenge is discarded, and when the limiter rejects
\* it, it fails with RateLimited and the Challenge stays; at the instant
\* now == expiresAt the right code and transactionId are still accepted
C2_ExpiredAfterExpiresAt ==
    [][\A o \in OtpInputs, x \in TxnInputs :
          (pendingChallenge # Null /\ verifyOTP(o, x, FillA))
              => /\ (now > pendingChallenge.expiresAt /\ Admits(otpVerifyLimiter, now))
                      => (/\ ~result'.ok
                          /\ result'.error = "OTP has expired"
                          /\ pendingChallenge' = Null)
                 /\ (now > pendingChallenge.expiresAt /\ ~Admits(otpVerifyLimiter, now))
                      => (/\ ~result'.ok
                          /\ result'.error = "Too many failed attempts"
                          /\ pendingChallenge' = pendingChallenge)
                 /\ (/\ now = pendingChallenge.expiresAt
                     /\ Admits(otpVerifyLimiter, now)
                     /\ x = pendingChallenge.transactionId
                     /\ SameHash(o, x)
                     /\ pendingChallenge.attempts < MAX_OTP_ATTEMPTS)
                      => (result'.ok /\ pendingChallenge' = Null)]_vars

\* a verify call has just failed with ChallengeExpired and discarded the Challenge
C2_Witness ==
    /\ result.op = "verifyOTP"
    /\ result.error = "OTP has expired"
    /\ pendingChallenge = Null

\* a verify call has just succeeded at the instant now == expiresAt
C2_WitnessBoundary ==
    /\ result.op = "verifyOTP" /\ result.ok
    /\ session # Null /\ session.userMeta.loginAt = OTP_VALIDITY
    /\ auditLog[1].event = "OTP_SENT" /\ auditLog[1].ts = 0

\* the call verify(o, x) carries the stored transactionId and a well-formed code
\* that is not the one sent
WrongCode(o, x) ==
    /\ pendingChallenge # Null
    /\ x = pendingChallenge.transactionId
    /\ IsDigits(o, OTP_LEN)
    /\ ~SameHash(o, x)

\* what C3 promises of verify(o, x) with a wrong code: IncorrectCode with
\* remaining 2, 1, 0 on attempts 1, 2, 3, AttemptsExhausted and no Challenge on
\* the 4th
CountedOrExhausted ==
    IF pendingChallenge.attempts < MAX_OTP_ATTEMPTS
      THEN /\ result'.error = "Incorrect OTP"
           /\ result'.remaining = MAX_OTP_ATTEMPTS - 1 - pendingChallenge.attempts
           /\ pendingChallenge' =
                 [pendingChallenge EXCEPT !.attempts = pendingChallenge.attempts + 1]
      ELSE /\ result'.error = "Too many incorrect attempts"
           /\ pendingChallenge' = Null

\* C3 as stated: an unexpired Challenge answers wrong codes with IncorrectCode
\* 2, 1, 0 and then AttemptsExhausted, whatever verify calls were made before
C3_Original ==
    [][\A o \in OtpInputs, x \in TxnInputs :
          (/\ WrongCode(o, x)
           /\ now <= pendingChallenge.expiresAt
           /\ verifyOTP(o, x, FillA))
              => CountedOrExhausted]_vars

\* C3 (amended): a Challenge is created with no attempt counted, and each
\* verify call with its transactionId and a well-formed wrong code that the
\* verify limiter admits and that is made no later than expiresAt fails with
\* IncorrectCode reporting remaining = 2, 1, 0 on attempts 1, 2, 3 and with
\* AttemptsExhausted on the 4th (discarding the Challenge); a call the verify
\* limiter rejects, which earlier verify calls can cause, fails with RateLimited
\* and is not counted
C3_AttemptsExhaustedOnFourth ==
    [][/\ \A o \in OtpInputs, x \in TxnInputs :
            (/\ WrongCode(o, x)
             /\ now <= pendingChallenge.expiresAt
             /\ verifyOTP(o, x, FillA))
                => IF Admits(otpVerifyLimiter, now)
                     THEN CountedOrExhausted
                     ELSE /\ result'.error = "Too many failed attempts"
                          /\ result'.lockSeconds > 0
                          /\ pendingChallenge' = pendingChallenge
       /\ (Request /\ result'.ok) => pendingChallenge'.attempts = 0]_vars

\* the 4th wrong code has just been answered with AttemptsExhausted
C3_Witness ==
    /\ result.op = "verifyOTP"
    /\ result.error = "Too many incorrect attempts"
    /\ pendingChallenge = Null
    /\ Len(auditLog) >= 2
    /\ auditLog[Len(auditLog)].event = "OTP_VERIFY_FAILED"
    /\ auditLog[Len(auditLog)].attempt = MAX_OTP_ATTEMPTS

\* C4: after request for a registered, checksum-valid id, the verify call with
\* the generated code and the returned transactionId (admitted by the verify
\* limiter, not past expiresAt) returns the profile bound to the Challenge with
\* a non-empty session token, stores a Session for it and consumes the
\* Challenge; a second verify with the same code and transactionId fails with
\* NoActiveChallenge
C4_OneTimeUse ==
    [][/\ (/\ result.op = "requestOTP" /\ result.ok
           /\ Admits(otpVerifyLimiter, now)
           /\ now <= pendingChallenge.expiresAt
           /\ verifyOTP(result.demoOTP, result.transactionId, FillA))
              => /\ result'.ok
                 /\ result'.user.name = pendingChallenge.resident.name
                 /\ result'.user.pan = pendingChallenge.resident.pan
                 /\ result'.user.dob = pendingChallenge.resident.dob
                 /\ result'.user.sessionToken # <<>>
                 /\ session' # Null
                 /\ session'.token = result'.user.sessionToken
                 /\ session'.userMeta = result'.user
                 /\ pendingChallenge' = Null
       /\ \A o \in OtpInputs, x \in TxnInputs :
             (result.op = "verifyOTP" /\ result.ok /\ verifyOTP(o, x, FillA))
                => (/\ ~result'.ok
                    /\ result'.error = "No active OTP session"
                    /\ session' = session)]_vars

\* the verify call repeated after a successful one has just failed with
\* NoActiveChallenge, the Session of the first still stored
C4_Witness ==
    /\ result.op = "verifyOTP"
    /\ result.error = "No active OTP session"
    /\ session # Null
    /\ auditLog # <<>>
    /\ auditLog[Len(auditLog)].event = "LOGIN_SUCCESS"

-----------------------------------------------------------------------------
(* Claims about requestOTP, checked under SpecRequest *)

\* C5: after a request call that returned a descriptor, the stored Challenge,
\* if any, is the one of that call: it carries the returned transactionId, has
\* no attempt counted and was not created before the call
C5_LastRequestWins ==
    [][\A a \in AadharInputs, f \in {FillA, FillB} :
          (requestOTP(a, RandomWord, f) /\ result'.ok /\ pendingChallenge' # Null)
              => /\ pendingChallenge'.transactionId = result'.transactionId
                 /\ pendingChallenge'.attempts = 0
                 /\ pendingChallenge'.expiresAt = now + OTP_VALIDITY]_vars

\* the ids of AadharInputs that validateAadhar (validators.js:43-50) turns down
InvalidIds == {AadharBadChecksum, AadharBadFirstDigit}

\* the error the specification's validator taxonomy gives an invalid id
ValidationError(a) ==
    IF a = AadharBadFirstDigit THEN "Invalid Aadhar number" ELSE "Invalid Aadhar checksum"

\* C6 as stated: a request call with an id that fails validation fails with the
\* validation error and leaves the request-phase limiter as it was
C6_Original ==
    [][\A a \in InvalidIds, f \in {FillA, FillB} :
          requestOTP(a, RandomWord, f)
              => (/\ ~result'.ok
                  /\ result'.error = ValidationError(a)
                  /\ otpRequestLimiter' = otpRequestLimiter)]_vars

\* C6 (amended): a request call with an id that fails validation never stores
\* or changes a Challenge, whether or not the Identity Directory holds the id,
\* but the request-phase limiter is consumed first: when it admits the call, the
\* call fails with the validator's error (FormatError for "111111111111", whose
\* first digit is 1, ChecksumError for a bad check digit) and the limiter has
\* recorded the attempt; when it rejects the call, the call fails with RateLimited
C6_InvalidIdFailsAfterLimiter ==
    [][\A a \in InvalidIds, f \in {FillA, FillB} :
          requestOTP(a, RandomWord, f)
              => /\ ~result'.ok
                 /\ pendingChallenge' = pendingChallenge
                 /\ IF Admits(otpRequestLimiter, now)
                      THEN /\ result'.error = ValidationError(a)
                           /\ otpRequestLimiter'.lockUntil = NO_LOCK
                           /\ otpRequestLimiter'.attempts # <<>>
                           /\ otpRequestLimiter'.attempts[Len(otpRequestLimiter'.attempts)] = now
                      ELSE /\ result'.error = "Too many requests"
                           /\ result'.lockSeconds > 0]_vars

\* a request call has just failed with ChecksumError, its attempt recorded by
\* the request-phase limiter
C6_Witness ==
    /\ result.op = "requestOTP"
    /\ result.error = "Invalid Aadhar checksum"
    /\ otpRequestLimiter.attempts # <<>>
    /\ otpRequestLimiter.attempts[Len(otpRequestLimiter.attempts)] = now

\* the attempts the request-phase limiter holds inside the window ending now
RequestsInWindow ==
    Cardinality({i \in DOMAIN otpRequestLimiter.attempts :
                    now - otpRequestLimiter.attempts[i] < REQUEST_WINDOW})

\* C7: with no lock running, a request call that is the 1st, 2nd or 3rd inside
\* the window is not rejected as RateLimited, and the 4th is, with
\* lockSeconds > 0
C7_ThreeRequestsPerWindow ==
    [][\A a \in AadharInputs, f \in {FillA, FillB} :
          (/\ otpRequestLimiter.lockUntil = NO_LOCK
           /\ requestOTP(a, RandomWord, f))
              => IF RequestsInWindow < REQUEST_MAX
                   THEN result'.error # "Too many requests"
                   ELSE result'.error = "Too many requests" /\ result'.lockSeconds > 0]_vars

\* C11: while lockUntil is set and in the future the limiter holds no
\* timestamp, and a consume() made during that time returns not allowed with
\* 0 < lockSeconds <= window / 1000 and leaves the limiter as it was: no attempt
\* recorded, lockUntil not moved
C11_LockedRefusesAndKeepsState ==
    /\ (limiter.lockUntil # NO_LOCK /\ now < limiter.lockUntil)
          => limiter.attempts = <<>>
    /\ (consumed.op = "consume" /\ WasLocked)
          => /\ ~consumed.allowed
             /\ consumed.lockSeconds > 0
             /\ consumed.lockSeconds * 1000 <= consumed.before.window
             /\ consumed.before.attempts = <<>>
             /\ limiter = consumed.before

\* C11 witness: consume() was refused part-way through a lock, the lock and the
\* empty history left as they were
C11_Witness ==
    /\ consumed.op = "consume"
    /\ WasLocked
    /\ consumed.at > consumed.before.lockUntil - consumed.before.window
    /\ ~consumed.allowed
    /\ consumed.lockSeconds * 1000 < consumed.before.window
    /\ limiter.lockUntil = consumed.before.lockUntil
    /\ now < limiter.lockUntil

-----------------------------------------------------------------------------
(* Claims about what a request reveals, checked under SpecRequest *)

\* C12: a request call that returns a descriptor right after another one did
\* returns it with the same set of fields, whichever checksum-valid ids were
\* given, and what a follow-up verify with the returned transactionId meets
\* is the same too: a stored Challenge carrying that transactionId
C12_AntiEnumeration ==
    [][(RequestAny /\ result'.ok)
          => /\ (result.op = "requestOTP" /\ result.ok)
                   => (/\ result'.fields = result.fields
                       /\ result'.hint = result.hint)
             /\ pendingChallenge' # Null
             /\ pendingChallenge'.transactionId = result'.transactionId]_vars

-----------------------------------------------------------------------------
(* Claims about the Session, checked under SpecSession *)

\* C13: a load() made while a Session is stored and now <= expiresAt returns
\* the profile and stores the Session with expiresAt = now + SESSION_TTL, the
\* rest of it untouched; and whatever step is taken, the expiresAt of a stored
\* Session never moves backward
C13_SlidingExpiry ==
    [][/\ (session # Null /\ now <= session.expiresAt /\ restoreSession)
            => /\ session' = [session EXCEPT !.expiresAt = now + SESSION_TTL]
               /\ result'.user = session.userMeta
               /\ session'.expiresAt >= session.expiresAt
       /\ (session # Null /\ session' # Null)
            => session'.expiresAt >= session.expiresAt]_vars

\* C13 witness: the Session issued at loginAt was restored at the very instant
\* its first expiresAt came, and lives on for another SESSION_TTL
C13_Witness ==
    /\ result.op = "restoreSession"
    /\ result.user # Null
    /\ session # Null
    /\ now = session.userMeta.loginAt + SESSION_TTL
    /\ session.expiresAt = now + SESSION_TTL
    /\ Len(auditLog) = 3
    /\ auditLog[3].event = "SESSION_RESTORED"

\* C14: a restoreSession() (a load()) made when no Session is stored or when
\* now > expiresAt returns absent and leaves the store empty; and a store that
\* is empty stays empty, however the clock moves and whatever is called, until
\* a verify call succeeds
C14_ExpiredSessionIsGone ==
    [][/\ (restoreSession /\ (session = Null \/ now > session.expiresAt))
            => /\ result'.user = Null
               /\ session' = Null
       /\ (session = Null /\ session' # Null)
            => /\ result'.op = "verifyOTP"
               /\ result'.ok
               /\ session'.token = result'.user.sessionToken]_vars

\* C14 witness: a load found the Session of an earlier login expired and the
\* store is empty
C14_Witness ==
    /\ result.op = "restoreSession"
    /\ result.user = Null
    /\ session = Null
    /\ Len(auditLog) >= 2
    /\ auditLog[Len(auditLog)].event \in {"LOGIN_SUCCESS", "SESSION_RESTORED"}
    /\ now > auditLog[Len(auditLog)].ts + SESSION_TTL

\* a load() finds the stored Session expired and calls clear()
LoadClears == restoreSession /\ session # Null /\ now > session.expiresAt

\* C15 as stated: clear(), here invoked by load() on an expired Session,
\* removes the Session, clears the Audit Log, resets both limiters and discards
\* the Challenge
C15_Original ==
    [][LoadClears
          => /\ session' = Null
             /\ auditLog' = <<>>
             /\ otpRequestLimiter' = reset(otpRequestLimiter)
             /\ otpVerifyLimiter' = reset(otpVerifyLimiter)
             /\ pendingChallenge' = Null]_vars

\* C15 (amended): clear(), here invoked by load() on an expired Session,
\* removes the stored Session and nothing else: the Audit Log, both limiters
\* and the Challenge are as they were
C15_ClearRemovesOnlySession ==
    [][LoadClears
          => /\ session' = Null
             /\ auditLog' = auditLog
             /\ otpRequestLimiter' = otpRequestLimiter
             /\ otpVerifyLimiter' = otpVerifyLimiter
             /\ pendingChallenge' = pendingChallenge]_vars

\* C15 witness: the Session of the login in the log has expired and a load has
\* cleared it, the log, a Challenge and the limiters' records still there
C15_Witness ==
    /\ result.op = "restoreSession"
    /\ result.user = Null
    /\ session = Null
    /\ \E i \in DOMAIN auditLog :
          auditLog[i].event = "LOGIN_SUCCESS" /\ now > auditLog[i].ts + SESSION_TTL
    /\ pendingChallenge # Null
    /\ otpRequestLimiter.attempts # <<>>

-----------------------------------------------------------------------------
(* Claims about logout and the audit log *)

\* C16: once logout() has returned, whatever state it was called in, no
\* Session is stored, the Audit Log is empty (the LOGOUT entry included), no
\* Challenge exists and both limiters are as constructed: no attempt, no lock
C16_LogoutClearsEverything ==
    result.op = "logout"
        => /\ session = Null
           /\ auditLog = <<>>
           /\ pendingChallenge = Null
           /\ otpRequestLimiter = NewRateLimiter(REQUEST_MAX, REQUEST_WINDOW)
           /\ otpVerifyLimiter = NewRateLimiter(VERIFY_MAX, VERIFY_WINDOW)

\* C16 witness: logout() has returned after the clock had moved on
C16_Witness ==
    /\ result.op = "logout"
    /\ now = MaxTicks * TickMs
    /\ session = Null
    /\ auditLog = <<>>
    /\ otpVerifyLimiter.lockUntil = NO_LOCK

\* calls of log() made so far under SpecAudit
Appended == now \div AuditTickMs

\* C17: after n calls of log() and no clear, the stored log holds min(n, 200)
\* entries, and its i-th entry is the (n - min(n, 200) + i)-th appended: the
\* most recent ones, oldest first, each as it was appended
C17_KeepsMostRecent200 ==
    LET n == Appended
        kept == IF n < AUDIT_KEEP THEN n ELSE AUDIT_KEEP
    IN  /\ Len(auditLog) = kept
        /\ \A i \in 1..kept :
              auditLog[i] = [event |-> "SESSION_RESTORED",
                             ts |-> (n - kept + i) * AuditTickMs,
                             ua |-> UserAgent]

\* C17 witness: more than 200 entries were appended and the oldest are gone
C17_Witness ==
    /\ Appended > AUDIT_KEEP + 1
    /\ Len(auditLog) = AUDIT_KEEP
    /\ auditLog[1].ts = (Appended - AUDIT_KEEP + 1) * AuditTickMs
    /\ auditLog[AUDIT_KEEP].ts = now

-----------------------------------------------------------------------------
(* Claims about failing storage, checked under SpecFault *)

\* C18: whether or not sessionStorage takes or yields the audit log, no call
\* ends with the exception of a failed log(), and each call has the result and
\* leaves the Challenge, the limiters and the Session that its inputs and the
\* state before it determine when the log is written: a request the limiter
\* rejects is RateLimited, one it admits stores the Challenge of a registered
\* id and returns its descriptor, or returns a descriptor for an unknown id;
\* a verify is RateLimited, NoActiveChallenge, AttemptsExhausted, IncorrectCode
\* with the attempt counted, or a login that stores the Session, consumes the
\* Challenge and resets the verify limiter; restoreSession returns the profile and slides the Session;
\* logout clears Session, Challenge and limiters
C18_LoggingIsBestEffort ==
    [][/\ result'.error # "QuotaExceededError"
       /\ \A a \in {AadharValidRegistered, AadharValidUnknown} :
             requestOTP(a, RandomWord, FillA)
                => /\ otpRequestLimiter' = consume(otpRequestLimiter, now).lim
                   /\ IF ~Admits(otpRequestLimiter, now)
                        THEN /\ result'.error = "Too many requests"
                             /\ pendingChallenge' = pendingChallenge
                      ELSE IF a = AadharValidUnknown
                        THEN /\ result'.ok
                             /\ result'.transactionId = TxnA
                             /\ pendingChallenge' = pendingChallenge
                      ELSE /\ result'.ok
                           /\ result'.transactionId = TxnA
                           /\ result'.demoOTP = OtpSent
                           /\ pendingChallenge' # Null
                           /\ pendingChallenge'.transactionId = TxnA
                           /\ pendingChallenge'.attempts = 0
                           /\ pendingChallenge'.expiresAt = now + OTP_VALIDITY
       /\ \A o \in {OtpSent, OtpNeverSent} :
             verifyOTP(o, TxnA, FillA)
                => IF ~Admits(otpVerifyLimiter, now)
                     THEN /\ result'.error = "Too many failed attempts"
                          /\ pendingChallenge' = pendingChallenge
                          /\ session' = session
                   ELSE IF pendingChallenge = Null
                     THEN /\ result'.error = "No active OTP session"
                          /\ pendingChallenge' = Null
                          /\ session' = session
                   ELSE IF pendingChallenge.attempts >= MAX_OTP_ATTEMPTS
                     THEN /\ result'.error = "Too many incorrect attempts"
                          /\ pendingChallenge' = Null
                          /\ session' = session
                   ELSE IF o = OtpSent
                     THEN /\ result'.ok
                          /\ result'.user.name = pendingChallenge.resident.name
                          /\ session' # Null
                          /\ session'.userMeta = result'.user
                          /\ pendingChallenge' = Null
                          /\ otpVerifyLimiter' = NewRateLimiter(VERIFY_MAX, VERIFY_WINDOW)
                   ELSE /\ result'.error = "Incorrect OTP"
                        /\ result'.remaining = MAX_OTP_ATTEMPTS - 1 - pendingChallenge.attempts
                        /\ pendingChallenge'.attempts = pendingChallenge.attempts + 1
                        /\ session' = session
       /\ (restoreSession /\ session # Null)
             => /\ result'.user = session.userMeta
                /\ session' = [session EXCEPT !.expiresAt = now + SESSION_TTL]
                /\ pendingChallenge' = pendingChallenge
       /\ logout
             => /\ result'.ok
                /\ session' = Null
                /\ pendingChallenge' = Null
                /\ otpRequestLimiter' = NewRateLimiter(REQUEST_MAX, REQUEST_WINDOW)
                /\ otpVerifyLimiter' = NewRateLimiter(VERIFY_MAX, VERIFY_WINDOW)]_vars

\* C18 witness: a login has just succeeded although neither of its two audit
\* entries could be written
C18_Witness ==
    /\ auditStorage = "writeFails"
    /\ result.op = "verifyOTP"
    /\ result.ok
    /\ session # Null
    /\ auditLog = <<>>

-----------------------------------------------------------------------------
(* Claims about the audit trail of failures, checked under SpecFailure *)

\* the request or verify call of this step fails
FailedCall ==
    /\ (\E a \in AadharInputs : requestOTP(a, RandomWord, FillA))
          \/ (\E o \in OtpInputs, x \in TxnInputs : verifyOTP(o, x, FillA))
    /\ ~result'.ok

\* the step appends exactly one entry, of the given event, to the audit log
Appends(event) ==
    /\ Len(auditLog') = Len(auditLog) + 1
    /\ SubSeq(auditLog', 1, Len(auditLog)) = auditLog
    /\ auditLog'[Len(auditLog')].event = event
    /\ auditLog'[Len(auditLog')].ts = now

\* C19 as stated: every failed request or verify call appends at least one
\* entry to the Audit Log
C19_Original ==
    [][FailedCall => Len(auditLog') > Len(auditLog)]_vars

\* C19 (amended): a failed request or verify call appends an Audit Log entry
\* only when it fails as RateLimited (OTP_REQUEST_RATE_LIMITED,
\* OTP_VERIFY_RATE_LIMITED) or as IncorrectCode (OTP_VERIFY_FAILED with the
\* attempt number); a call failing with FormatError, ChecksumError,
\* NoActiveChallenge, ChallengeExpired, TransactionMismatch, a malformed code
\* or AttemptsExhausted leaves the Audit Log as it was
C19_OnlySomeFailuresLogged ==
    [][FailedCall
          => /\ result'.error \in
                   {"Too many requests", "Too many failed attempts", "Incorrect OTP",
                    "Aadhar must be exactly 12 digits", "Invalid Aadhar number",
                    "Invalid Aadhar checksum", "No active OTP session",
                    "OTP has expired", "Session mismatch", "OTP must be 6 digits",
                    "Too many incorrect attempts"}
             /\ IF result'.error = "Too many requests"
                  THEN Appends("OTP_REQUEST_RATE_LIMITED")
                ELSE IF result'.error = "Too many failed attempts"
                  THEN Appends("OTP_VERIFY_RATE_LIMITED")
                ELSE IF result'.error = "Incorrect OTP"
                  THEN /\ Appends("OTP_VERIFY_FAILED")
                       /\ auditLog'[Len(auditLog')].attempt = pendingChallenge'.attempts
                ELSE auditLog' = auditLog]_vars

\* C19 witness: the 4th wrong code has been refused with AttemptsExhausted and
\* the log ends with the entry of the 3rd
C19_Witness ==
    /\ result.op = "verifyOTP"
    /\ result.error = "Too many incorrect attempts"
    /\ Len(auditLog) = 4
    /\ auditLog[4].event = "OTP_VERIFY_FAILED"
    /\ auditLog[4].attempt = MAX_OTP_ATTEMPTS

\* C19 second witness: an expired code was refused without an entry
C19_WitnessExpired ==
    /\ result.op = "verifyOTP"
    /\ result.error = "OTP has expired"
    /\ Len(auditLog) = 1
    /\ auditLog[1].event = "OTP_SENT"

-----------------------------------------------------------------------------
(* Claims about what the stores retain, checked under Spec *)

\* the text s holds the text sub somewhere inside it
Contains(s, sub) ==
    \E i \in 1..(Len(s) - Len(sub) + 1) : SubSeq(s, i, i + Len(sub) - 1) = sub

\* the identity numbers and the codes that pass through the calls
RawIds == {StripWhitespace(a) : a \in AadharInputs}
RawCodes == OtpInputs

\* the text s holds no identity number and no code
NoSecret(s) == \A x \in RawIds \cup RawCodes : ~Contains(s, x)

\* the Challenge keeps the two hashes, the transaction id, and a record of the
\* directory, which has no identity number in it
ChallengeKeepsNoSecret ==
    pendingChallenge # Null =>
        /\ DOMAIN pendingChallenge =
              {"aadharHash", "otpHash", "transactionId", "expiresAt", "resident", "attempts"}
        /\ \E n \in RawIds : pendingChallenge.aadharHash = sha256(n \o VITE_AADHAR_PEPPER)
        /\ \E c \in RawCodes :
              pendingChallenge.otpHash = sha256(c \o pendingChallenge.transactionId)
        /\ NoSecret(pendingChallenge.transactionId)
        /\ \E n \in DOMAIN DEMO_RESIDENTS : pendingChallenge.resident = DEMO_RESIDENTS[n]
        /\ NoSecret(pendingChallenge.resident.mobile)

\* the Session record keeps the token and the profile with a fully masked id
SessionKeepsNoSecret ==
    session # Null =>
        /\ DOMAIN session = {"token", "userMeta", "expiresAt"}
        /\ NoSecret(session.token)
        /\ DOMAIN session.userMeta =
              {"name", "maskedAadhar", "pan", "dob", "connectedBrokers", "sessionToken",
               "loginAt"}
        /\ \A d \in 1..Len(session.userMeta.maskedAadhar) :
              ~IsDigit(session.userMeta.maskedAadhar[d])
        /\ NoSecret(session.userMeta.sessionToken)
        /\ session.userMeta.connectedBrokers = <<>>
        /\ \E n \in DOMAIN DEMO_RESIDENTS :
              /\ session.userMeta.name = DEMO_RESIDENTS[n].name
              /\ session.userMeta.pan = DEMO_RESIDENTS[n].pan
              /\ session.userMeta.dob = DEMO_RESIDENTS[n].dob

\* an Audit Log entry keeps its event, time and client signature and, by event,
\* a masked id showing 4 digits at most, a transaction id, an attempt count, a
\* name of the directory, the first 8 characters of the token
EntryKeepsNoSecret(e) ==
    /\ DOMAIN e \subseteq
          {"event", "ts", "ua", "masked", "transactionId", "attempt", "name", "sessionToken"}
    /\ NoSecret(e.ua)
    /\ "masked" \in DOMAIN e =>
          /\ NoSecret(e.masked)
          /\ Cardinality({d \in 1..Len(e.masked) : IsDigit(e.masked[d])}) <= 4
    /\ "transactionId" \in DOMAIN e => NoSecret(e.transactionId)
    /\ "attempt" \in DOMAIN e => e.attempt \in 1..MAX_OTP_ATTEMPTS
    /\ "name" \in DOMAIN e => \E n \in DOMAIN DEMO_RESIDENTS : e.name = DEMO_RESIDENTS[n].name
    /\ "sessionToken" \in DOMAIN e => NoSecret(e.sessionToken)

\* C20: in every reachable state neither the Challenge, nor the Session record,
\* nor any Audit Log entry holds a full raw identity number or a raw one-time
\* code: the Challenge holds hash(id + pepper) and hash(code + transactionId),
\* the other stores hold masked values
C20_StoresKeepNoSecret ==
    /\ ChallengeKeepsNoSecret
    /\ SessionKeepsNoSecret
    /\ \A i \in 1..Len(auditLog) : EntryKeepsNoSecret(auditLog[i])

\* C20 witness: after a request, wrong codes and a login, the Session is
\* stored and the log holds the entries of the request, a failure and the login
C20_Witness ==
    /\ session # Null
    /\ Len(auditLog) >= 3
    /\ auditLog[1].event = "OTP_SENT"
    /\ auditLog[1].masked = <<"X", "X", "X", "X", " ", "X", "X", "X", "X", " ">>
                               \o SliceFrom(AadharValidRegistered, 8)
    /\ \E i \in 1..Len(auditLog) : auditLog[i].event = "OTP_VERIFY_FAILED"
    /\ auditLog[Len(auditLog)].event = "LOGIN_SUCCESS"

\* C20 second witness: a Challenge is pending, with the two hashes in it
C20_WitnessChallenge ==
    /\ pendingChallenge # Null
    /\ pendingChallenge.aadharHash = sha256(AadharValidRegistered \o VITE_AADHAR_PEPPER)
    /\ pendingChallenge.otpHash = sha256(OtpSent \o TxnA)
    /\ pendingChallenge.attempts > 0

-----------------------------------------------------------------------------
(* Claims about the effects of verifyOTP, checked under Spec *)

\* C21: after a successful verify the Challenge is absent, the verify limiter
\* is as constructed, a Session is stored that carries the name, pan and dob
\* of the Challenge's resident and expires at now + ttl, the newest Audit Log
\* entry is LOGIN_SUCCESS, and the user returned is the user stored
C21_SuccessPostState ==
    [][\A o \in OtpInputs, x \in TxnInputs :
          (result'.ok /\ verifyOTP(o, x, FillA))
             => /\ pendingChallenge # Null
                /\ pendingChallenge' = Null
                /\ otpVerifyLimiter' = NewRateLimiter(VERIFY_MAX, VERIFY_WINDOW)
                /\ session' # Null
                /\ session'.userMeta.name = pendingChallenge.resident.name
                /\ session'.userMeta.pan = pendingChallenge.resident.pan
                /\ session'.userMeta.dob = pendingChallenge.resident.dob
                /\ session'.expiresAt = now + SESSION_TTL
                /\ auditLog' # <<>>
                /\ auditLog'[Len(auditLog')].event = "LOGIN_SUCCESS"
                /\ result'.user = session'.userMeta]_vars

\* C21 witness: a login after two wrong codes, at a later time than the
\* request: the limiter held three attempts and is as constructed again
C21_Witness ==
    /\ result.op = "verifyOTP"
    /\ result.ok
    /\ now > 0
    /\ Len(auditLog) = 4
    /\ auditLog[2].event = "OTP_VERIFY_FAILED"
    /\ auditLog[3].event = "OTP_VERIFY_FAILED"
    /\ auditLog[4].event = "LOGIN_SUCCESS"
    /\ auditLog[4].ts = now
    /\ otpVerifyLimiter = NewRateLimiter(VERIFY_MAX, VERIFY_WINDOW)
    /\ session # Null
    /\ session.expiresAt = now + SESSION_TTL
    /\ pendingChallenge = Null


\* the verify call of this step ends with one of the given errors
VerifyFailsWith(errors) ==
    /\ result'.error \in errors
    /\ \E o \in OtpInputs, x \in TxnInputs : verifyOTP(o, x, FillA)

\* the verify call of this step returns a user
VerifySucceeds ==
    /\ result'.ok
    /\ \E o \in OtpInputs, x \in TxnInputs : verifyOTP(o, x, FillA)

\* the steps that make a Challenge absent
Discards ==
    \/ VerifySucceeds
    \/ VerifyFailsWith({"OTP has expired", "Too many incorrect attempts"})
    \/ logout

\* C28: a Challenge becomes absent on a successful verify, a verify that finds
\* it expired, the verify that exhausts its attempts, and logout, and on no
\* other step; an IncorrectCode outcome, the one with remaining = 0 included,
\* keeps it with attempts one higher and nothing else changed; restoreSession
\* leaves it as it is
C28_ChallengeLifecycle ==
    [][/\ (pendingChallenge # Null /\ pendingChallenge' = Null) => Discards
       /\ pendingChallenge' = Null \/ ~Discards
       /\ VerifyFailsWith({"Incorrect OTP"})
             => /\ pendingChallenge # Null
                /\ pendingChallenge' =
                      [pendingChallenge EXCEPT !.attempts = pendingChallenge.attempts + 1]
                /\ result'.remaining = MAX_OTP_ATTEMPTS - pendingChallenge'.attempts
       /\ restoreSession => pendingChallenge' = pendingChallenge]_vars

\* C28 witness: the third wrong code was refused with remaining = 0 and the
\* Challenge is still there, with 3 attempts
C28_Witness ==
    /\ result.op = "verifyOTP"
    /\ result.error = "Incorrect OTP"
    /\ result.remaining = 0
    /\ pendingChallenge # Null
    /\ pendingChallenge.attempts = MAX_OTP_ATTEMPTS

\* C28 second witness: a session was restored while a Challenge was pending
C28_WitnessRestore ==
    /\ result.op = "restoreSession"
    /\ result.user # Null
    /\ pendingChallenge # Null

-----------------------------------------------------------------------------
(* Claims about the failures of verifyOTP, checked under SpecFailure *)

\* the failure conditions of verify(o, x) in the state before the call, in the
\* order of the claim, each with the message that reports it
VerifyConditions(o, x) ==
    << [holds |-> ~consume(otpVerifyLimiter, now).allowed,
        error |-> "Too many failed attempts"],
       [holds |-> pendingChallenge = Null,
        error |-> "No active OTP session"],
       [holds |-> pendingChallenge # Null /\ now > pendingChallenge.expiresAt,
        error |-> "OTP has expired"],
       [holds |-> pendingChallenge # Null /\ pendingChallenge.transactionId # x,
        error |-> "Session mismatch"],
       [holds |-> ~IsDigits(o, OTP_LEN),
        error |-> "OTP must be 6 digits"],
       [holds |-> pendingChallenge # Null
                     /\ pendingChallenge.attempts + 1 > MAX_OTP_ATTEMPTS,
        error |-> "Too many incorrect attempts"],
       [holds |-> pendingChallenge # Null
                     /\ sha256(o \o x) # pendingChallenge.otpHash,
        error |-> "Incorrect OTP"] >>

\* the conditions of VerifyConditions(o, x) that hold
Holding(o, x) == {i \in 1..7 : VerifyConditions(o, x)[i].holds}

\* the error of the first record of conds that holds, "" if none does
FirstHolding(conds) ==
    LET held == {i \in 1..Len(conds) : conds[i].holds}
    IN  IF held = {} THEN ""
        ELSE conds[CHOOSE i \in held : \A j \in held : i <= j].error

\* C26: a failing verify reports the first condition, in the order RateLimited,
\* NoActiveChallenge, ChallengeExpired, TransactionMismatch, FormatError,
\* AttemptsExhausted, IncorrectCode, that holds when it is called; it succeeds
\* only if none holds
C26_ErrorPrecedence ==
    [][\A o \in OtpInputs, x \in TxnInputs :
          verifyOTP(o, x, FillA)
             => /\ result'.ok = (Holding(o, x) = {})
                /\ result'.error = FirstHolding(VerifyConditions(o, x))]_vars

\* C26 witness: RateLimited was reported while no Challenge existed, which
\* NoActiveChallenge would have reported next
C26_Witness ==
    /\ result.op = "verifyOTP"
    /\ result.error = "Too many failed attempts"
    /\ pendingChallenge = Null

\* C26 second witness: a verify is enabled for which the Challenge is expired,
\* has another transaction id and spent attempts, and the code is malformed
C26_WitnessManyAtOnce ==
    /\ Holding(OtpMalformed, TxnB) = {3, 4, 5, 6, 7}
    /\ ENABLED verifyOTP(OtpMalformed, TxnB, FillA)


\* the verify call of this step fails with one of the three errors that come
\* before the attempt is counted
FailsBeforeCounting ==
    /\ \E o \in OtpInputs, x \in TxnInputs : verifyOTP(o, x, FillA)
    /\ result'.error \in {"Too many failed attempts", "Session mismatch", "OTP must be 6 digits"}

\* C27 as stated: such a call leaves the Challenge unchanged, and the verify
\* limiter's attempt history is left unchanged by the RateLimited outcome and
\* by that one only
C27_Original ==
    [][FailsBeforeCounting
          => /\ pendingChallenge' = pendingChallenge
             /\ (result'.error = "Too many failed attempts")
                   <=> (otpVerifyLimiter'.attempts = otpVerifyLimiter.attempts)]_vars

\* C27 (amended): a verify call that fails with RateLimited, TransactionMismatch
\* or FormatError leaves the Challenge unchanged.  TransactionMismatch and
\* FormatError record the call in the verify limiter's attempt history.
\* RateLimited leaves the limiter unchanged when the limiter was already
\* locked; the call that reaches maxAttempts is also refused as RateLimited,
\* and it empties the attempt history and sets lockUntil = now + window
C27_FrameOfEarlyFailures ==
    [][FailsBeforeCounting
          => /\ pendingChallenge' = pendingChallenge
             /\ IF result'.error # "Too many failed attempts"
                  THEN /\ otpVerifyLimiter'.attempts =
                             Append(InWindow(otpVerifyLimiter, now), now)
                       /\ otpVerifyLimiter'.lockUntil = NO_LOCK
                ELSE IF otpVerifyLimiter.lockUntil # NO_LOCK /\ now < otpVerifyLimiter.lockUntil
                  THEN otpVerifyLimiter' = otpVerifyLimiter
                ELSE /\ otpVerifyLimiter.attempts # <<>>
                     /\ otpVerifyLimiter'.attempts = <<>>
                     /\ otpVerifyLimiter'.lockUntil = now + VERIFY_WINDOW]_vars

\* C27 witness: the call that reached maxAttempts was refused as RateLimited
\* with a Challenge pending: the history is empty and the lock starts now
C27_Witness ==
    /\ result.op = "verifyOTP"
    /\ result.error = "Too many failed attempts"
    /\ pendingChallenge # Null
    /\ otpVerifyLimiter.attempts = <<>>
    /\ otpVerifyLimiter.lockUntil = now + VERIFY_WINDOW
    /\ auditLog[Len(auditLog)].event = "OTP_VERIFY_RATE_LIMITED"
    /\ auditLog[Len(auditLog)].ts = now

-----------------------------------------------------------------------------
(* Claims about the checksum validator, checked under SpecValidate *)

\* the product of the dihedral group D5 that the Verhoeff scheme uses: 0..4
\* are the rotations, 5..9 the reflections
Dihedral(a, b) ==
    IF a < 5 /\ b < 5 THEN (a + b) % 5
    ELSE IF a < 5 THEN 5 + ((a + (b - 5)) % 5)
    ELSE IF b < 5 THEN 5 + (((a - 5) - b + 5) % 5)
    ELSE ((a - 5) - (b - 5) + 5) % 5

\* the permutation of the scheme, (1 5 8 9 4 2 7 0)(3 6), applied i times
VerhoeffSigma == <<1, 5, 7, 6, 2, 8, 3, 0, 9, 4>>
RECURSIVE SigmaPower(_, _)
SigmaPower(i, d) == IF i = 0 THEN d ELSE VerhoeffSigma[SigmaPower(i - 1, d) + 1]

\* the Verhoeff checksum of the last k digits of num
RECURSIVE VerhoeffChecksum(_, _)
VerhoeffChecksum(num, k) ==
    IF k = 0 THEN 0
    ELSE Dihedral(VerhoeffChecksum(num, k - 1),
                  SigmaPower(k - 1, DigitValue(num[Len(num) - (k - 1)])))

\* raw is, once its whitespace is stripped, 12 digits with the first one in
\* 2..9 and Verhoeff checksum 0
WellFormedId(raw) ==
    LET num == StripWhitespace(raw)
    IN  /\ Len(num) = AADHAR_LEN
        /\ \A i \in 1..Len(num) : IsDigit(num[i])
        /\ DigitValue(num[1]) \in 2..9
        /\ VerhoeffChecksum(num, Len(num)) = 0

\* C23: validateAadhar accepts exactly the strings that are, after whitespace
\* stripping, 12 digits with first digit in 2..9 and Verhoeff checksum 0; an
\* accepted string with one digit changed, or with two adjacent unequal digits
\* transposed, is rejected
C23_AcceptsExactlyWellFormed ==
    validated # NoValidation =>
        /\ validated.valid <=> WellFormedId(validated.input)
        /\ validated.edit \in {"digit", "swap"} => ~validated.valid

\* C23 witness: an accepted id had its first two digits, both in 2..9,
\* transposed and was rejected for its checksum
C23_Witness ==
    /\ validated.edit = "swap"
    /\ validated.input[1] # validated.input[2]
    /\ DigitValue(validated.input[1]) \in 2..9
    /\ DigitValue(validated.input[2]) \in 2..9
    /\ validated.error = "Invalid Aadhar checksum"

\* C23 second witness: one digit of an accepted id with spaces was changed
C23_WitnessDigit ==
    /\ validated.edit = "digit"
    /\ Len(validated.input) = AADHAR_LEN + 2
    /\ validated.error = "Invalid Aadhar checksum"

-----------------------------------------------------------------------------
(* Claim about the hash comparison, checked under SpecCompare *)

\* C24: the comparison of the computed hash with the stored otpHash takes the
\* same time wherever the first differing character is: two comparisons of
\* wrong digests with the same otpHash, one after the other in the same
\* engine, examine the same number of code units
C24_ConstantTimeComparison ==
    [][(/\ compared.engine = compared'.engine
        /\ compared.stored = compared'.stored
        /\ compared.differ
        /\ compared'.differ)
          => compared'.examined = compared.examined]_vars

-----------------------------------------------------------------------------
(* Claims checked under SpecOverlap *)

\* the verify call of c is past its await point carrying the code that was
\* sent and the transaction id of the pending challenge
InFlightCorrect(c) ==
    /\ calls[c].pc = "awaitHash"
    /\ pendingChallenge # Null
    /\ calls[c].otp = OtpSent
    /\ calls[c].transactionId = pendingChallenge.transactionId

\* C22: of the verify calls made for one challenge, overlapping or not and
\* all with the correct code, at most one finds its hash equal to the
\* challenge's and is issued a session: the call that does leaves no challenge
\* behind for the others
C22_OneSessionPerChallenge ==
    \/ hashChecks.matched = 0
    \/ hashChecks.matched = 1 /\ pendingChallenge = Null

\* a call with the correct code has logged in on the challenge the log shows
\* while another call with the correct code for it is still at its await
C22_Witness ==
    /\ hashChecks.matched = 1
    /\ session # Null
    /\ result.op = "verifyOTP" /\ result.ok
    /\ Len(auditLog) = 2
    /\ auditLog[1].event = "OTP_SENT" /\ auditLog[2].event = "LOGIN_SUCCESS"
    /\ \E c \in VerifyCallers :
          /\ calls[c].pc = "awaitHash"
          /\ calls[c].otp = OtpSent
          /\ calls[c].transactionId = auditLog[1].transactionId

\* one call has logged in, and another has come back from its await to no
\* challenge
C22_WitnessSecondFails ==
    /\ hashChecks.matched = 1
    /\ session # Null
    /\ result.op = "verifyOTP" /\ result.error = "TypeError"
    /\ \A c \in VerifyCallers : calls[c] = Idle

\* both calls in flight at once, each with the correct code
C22_WitnessBothInFlight == \A c \in VerifyCallers : InFlightCorrect(c)

\* the step stores a Session that was not there: another token or another
\* user, and not merely the stored one with its expiry slid
StoresSession ==
    /\ session' # Null
    /\ \/ session = Null
       \/ session'.token # session.token
       \/ session'.userMeta # session.userMeta

\* the verify call of c starts waiting for its hash in the step, so the checks
\* before the await have let it through
PassesChecks(c) == calls[c] = Idle /\ calls'[c].pc = "awaitHash"

\* C25: a step that stores a Session is the second half of a verify call whose
\* code and transaction id hash to the otpHash of the pending challenge, that
\* carries the challenge's transaction id and finds attempts <= 3; and a verify
\* call gets to its second half only if the verify limiter allowed it, a
\* challenge was pending and unexpired then, with the transaction id of the
\* call, and attempts <= 3 after the increment.  restoreSession, logout,
\* requestOTP and the clock store no Session
C25_SessionOnlyFromVerify ==
    [][/\ StoresSession =>
            \E c \in VerifyCallers :
                /\ calls[c].pc = "awaitHash" /\ calls'[c] = Idle
                /\ pendingChallenge # Null
                /\ pendingChallenge.transactionId = calls[c].transactionId
                /\ pendingChallenge.attempts <= MAX_OTP_ATTEMPTS
                /\ sha256(calls[c].otp \o calls[c].transactionId) = pendingChallenge.otpHash
                /\ result'.op = "verifyOTP" /\ result'.ok
       /\ \A c \in VerifyCallers : PassesChecks(c) =>
                /\ \/ otpVerifyLimiter.lockUntil = NO_LOCK
                   \/ now >= otpVerifyLimiter.lockUntil
                /\ otpVerifyLimiter'.lockUntil = NO_LOCK
                /\ pendingChallenge # Null
                /\ now <= pendingChallenge.expiresAt
                /\ pendingChallenge.transactionId = calls'[c].transactionId
                /\ pendingChallenge'.attempts = pendingChallenge.attempts + 1
                /\ pendingChallenge'.attempts <= MAX_OTP_ATTEMPTS]_vars

\* a verify call has just stored a Session
C25_Witness ==
    /\ session # Null
    /\ result.op = "verifyOTP" /\ result.ok
    /\ Len(auditLog) = 2
    /\ auditLog[2].event = "LOGIN_SUCCESS"

-----------------------------------------------------------------------------
(* Claims checked under SpecBrute *)

C29_WitnessStale ==
    /\ pendingChallenge # Null
    /\ hashChecks.stale = 1
    /\ hashChecks.submitted = 1

-----------------------------------------------------------------------------
(* Claims checked under SpecLimiter, with the history of allowed calls *)

\* the calls of consume() since the last reset() that returned allowed and
\* were made at one of the w instants from s on
AllowedFrom(s, w) == {j \in DOMAIN allowedAt : s <= allowedAt[j] /\ allowedAt[j] < s + w}

C30_WitnessBoundary ==
    \E i \in DOMAIN allowedAt :
        /\ Cardinality(AllowedFrom(allowedAt[i], 1)) = limiter.max - 1
        /\ Cardinality(AllowedFrom(allowedAt[i] + limiter.window, 1)) = limiter.max - 1

-----------------------------------------------------------------------------
(* Claims about the request phase, checked under SpecRequest *)

\* the request limiter is not locked at the time of the call
RequestNotLocked ==
    otpRequestLimiter.lockUntil = NO_LOCK \/ now >= otpRequestLimiter.lockUntil

\* the attempts of the request limiter that are younger than its window
RequestsKept ==
    SelectSeq(otpRequestLimiter.attempts, LAMBDA t : now - t < REQUEST_WINDOW)

\* the call has put one attempt, its own, behind those still in the window
RecordsAttempt == otpRequestLimiter'.attempts = Append(RequestsKept, now)

\* C31 as stated: every request call made while the request limiter is not
\* locked records one attempt in it
C31_Original ==
    [][\A a \in AadharInputs, f \in {FillA, FillB} :
          (RequestNotLocked /\ requestOTP(a, RandomWord, f)) => RecordsAttempt]_vars

\* C31: a request call made while the request limiter is not locked is turned
\* down as RateLimited exactly when it is the max-th inside the window, and
\* then the limiter holds no attempt and is locked for a window; every other
\* such call, whether it fails validation or returns a descriptor for a
\* registered or an unknown id, leaves its own attempt behind those still in
\* the window, and no lock
C31_AllowedRequestRecordsAttempt ==
    [][\A a \in AadharInputs, f \in {FillA, FillB} :
          (RequestNotLocked /\ requestOTP(a, RandomWord, f)) =>
             /\ result'.error = "Too many requests" <=> Len(RequestsKept) + 1 >= REQUEST_MAX
             /\ IF Len(RequestsKept) + 1 >= REQUEST_MAX
                  THEN /\ otpRequestLimiter'.attempts = <<>>
                       /\ otpRequestLimiter'.lockUntil = now + REQUEST_WINDOW
                  ELSE /\ RecordsAttempt
                       /\ otpRequestLimiter'.lockUntil = NO_LOCK]_vars

\* an id that failed validation has left its attempt in the limiter
C31_Witness ==
    /\ result.op = "requestOTP"
    /\ result.error \in {"Invalid Aadhar number", "Invalid Aadhar checksum"}
    /\ otpRequestLimiter.attempts # <<>>
    /\ otpRequestLimiter.attempts[Len(otpRequestLimiter.attempts)] = now

\* the call that locked the limiter: made while it was not locked, and no
\* attempt is recorded
C31_WitnessLocking ==
    /\ result.op = "requestOTP"
    /\ result.error = "Too many requests"
    /\ otpRequestLimiter.attempts = <<>>
    /\ otpRequestLimiter.lockUntil = now + REQUEST_WINDOW

-----------------------------------------------------------------------------
(* Claims about failing request calls, checked under SpecFailure *)

\* the request call of this step fails with one of errors
RequestFailsWith(errors) ==
    /\ result'.op = "requestOTP"
    /\ result'.error \in errors
    /\ \E a \in {AadharValidRegistered, AadharBadChecksum, AadharBadFirstDigit} :
          requestOTP(a, RandomWord, FillA)

C32_WitnessInvalid ==
    /\ result.op = "requestOTP"
    /\ result.error = "Invalid Aadhar checksum"
    /\ pendingChallenge # Null
    /\ pendingChallenge.attempts > 0
    /\ otpVerifyLimiter.attempts # <<>>

-----------------------------------------------------------------------------
(* Claims about the two limiters of the service, checked under SpecOverlap *)

\* the step is a stretch of a request call
RequestStep ==
    \/ requestOTP_begin("sendOTP", AadharValidRegistered)
    \/ \E f \in {FillA, FillB} : requestOTP_lookup("sendOTP", RandomWord, f)
    \/ requestOTP_store("sendOTP")

\* the step is a stretch of a verify call
VerifyStep ==
    \/ \E c \in VerifyCallers, i \in OverlapVerifyInputs : verifyOTP_begin(c, i[1], i[2])
    \/ \E c \in VerifyCallers : verifyOTP_resume(c, FillA)

\* C33: no stretch of a request call changes the verify limiter and no stretch
\* of a verify call changes the request limiter, nor does restoreSession
\* change either; a verify call that returns the user leaves the verify
\* limiter as constructed; and the request limiter gets back to the state it
\* was constructed in by logout alone
C33_LimitersIndependent ==
    [][/\ otpVerifyLimiter' # otpVerifyLimiter => ~RequestStep /\ ~restoreSession
       /\ otpRequestLimiter' # otpRequestLimiter => ~VerifyStep /\ ~restoreSession
       /\ (result'.op = "verifyOTP" /\ result'.ok /\ VerifyStep)
            => otpVerifyLimiter' = NewRateLimiter(VERIFY_MAX, VERIFY_WINDOW)
       /\ ( /\ otpRequestLimiter' # otpRequestLimiter
            /\ otpRequestLimiter' = NewRateLimiter(REQUEST_MAX, REQUEST_WINDOW) )
            => logout]_vars

\* a login: the verify limiter is as constructed, the request limiter still
\* holds the attempt of the request
C33_Witness ==
    /\ result.op = "verifyOTP" /\ result.ok
    /\ session # Null
    /\ otpVerifyLimiter = NewRateLimiter(VERIFY_MAX, VERIFY_WINDOW)
    /\ otpRequestLimiter.attempts # <<>>

\* a second request has stored its challenge while the verify limiter holds
\* attempts
C33_WitnessRequest ==
    /\ result.op = "requestOTP" /\ result.ok
    /\ Len(otpRequestLimiter.attempts) = 2
    /\ otpVerifyLimiter.attempts # <<>>

-----------------------------------------------------------------------------
(* Claims checked under SpecUnknown *)

\* C34: a verify call that returns the user does not carry a transaction id
\* that a request for an unregistered id has returned; nor is such an id ever
\* the transaction id of the pending challenge
C34_UnknownIdNeverVerifies ==
    [][/\ \A c \in VerifyCallers :
            (result'.op = "verifyOTP" /\ result'.ok /\ verifyOTP_resume(c, FillA))
               => calls[c].transactionId \notin unknownTxns
       /\ pendingChallenge' # Null
            => pendingChallenge'.transactionId \notin unknownTxns']_vars

\* a transaction id was returned for an unregistered id while a challenge was
\* pending, and a verify call carrying it, with the code that was sent, has
\* been turned down
C34_Witness ==
    /\ unknownTxns # {}
    /\ pendingChallenge # Null
    /\ result.op = "verifyOTP"
    /\ result.error = "Session mismatch"

\* a login after a transaction id was returned for an unregistered id
C34_WitnessLogin ==
    /\ unknownTxns # {}
    /\ result.op = "verifyOTP" /\ result.ok

-----------------------------------------------------------------------------
(* Claims about calls suspended at their await, checked under SpecOverlap *)

\* the messages of the errors verifyOTP throws by design: RateLimited,
\* NoActiveChallenge, ChallengeExpired, TransactionMismatch, FormatError,
\* AttemptsExhausted, IncorrectCode
VerifyTaxonomy ==
    {"Too many failed attempts", "No active OTP session", "OTP has expired",
     "Session mismatch", "OTP must be 6 digits", "Too many incorrect attempts",
     "Incorrect OTP"}

\* C35: every verify call that has ended has returned the user or failed
\* with one of the errors of the taxonomy, whatever happened to the challenge
\* while the call was at its await
C35_VerifyEndsInTaxonomy ==
    result.op = "verifyOTP" => (result.ok \/ result.error \in VerifyTaxonomy)


\* no request call has started since the last logout, or since the page was
\* loaded: every requestOTP begins with consume(), which leaves a timestamp or
\* a lock in the request limiter, and only logout's reset() removes them
NoRequestSinceLogout ==
    otpRequestLimiter = NewRateLimiter(REQUEST_MAX, REQUEST_WINDOW)

\* C36: after logout there is no Challenge until a request that started
\* after the logout stores one: as long as no request has started since the
\* last logout, none is pending, whatever call was at its await when logout
\* ran
C36_LogoutIsFinal == NoRequestSinceLogout => pendingChallenge = Null


-----------------------------------------------------------------------------
(* Claims about the AuthProvider state machine *)

\* C37: once AUTH_SUCCESS has been dispatched the phase stays 'authenticated'
\* with a user until LOGOUT, whatever the order in which the sendOTP and
\* confirmOTP calls in flight complete and goBack is called: state.user is
\* non-null only while state.phase is 'authenticated'
C37_UserOnlyWhileAuthenticated ==
    state.user # Null => state.phase = "authenticated"


-----------------------------------------------------------------------------
(* Claims about generateOTP *)

\* C38: generateOTP(len) returns exactly len decimal digits for every len it
\* supports, rejects every len for which 10^len is above the range of the
\* 32-bit random value, and the code of OTP_LEN digits that requestOTP
\* generates passes the format check of verifyOTP
C38_OtpDigitsOrRejected ==
    generated.op = "generateOTP" =>
        /\ AboveUint32(generated.len) => generated.threw
        /\ ~AboveUint32(generated.len) =>
              ~generated.threw /\ IsDigits(generated.otp, generated.len)
        /\ generated.len = OTP_LEN => validateOTP(generated.otp).valid


-----------------------------------------------------------------------------
(* Claims about the registry *)

\* C39: every key of DEMO_RESIDENTS passes validateAadhar, so a request made
\* with a registered id while the request limiter is not locked stores a
\* Challenge bound to the profile registered for that id
C39_RegisteredIdGetsChallenge ==
    [][\A k \in DOMAIN DEMO_RESIDENTS, f \in {FillA, FillB} :
          (RequestNotLocked /\ requestOTP(k, RandomWord, f))
              => /\ validateAadhar(k).valid
                 /\ pendingChallenge' # Null
                 /\ pendingChallenge'.resident = DEMO_RESIDENTS[k]]_vars

====
